---- MODULE Spec2Model ----
(***************************************************************************)
(* Calligraphy grading core: CalligraphyScorer (src/src/scoring/scorer.py),*)
(* TextDetector (src/src/detection/detector.py), StrokeExtractor           *)
(* (src/src/extraction/stroke_extractor.py), FeedbackGenerator             *)
(* (src/src/feedback/generator.py) and CalligraphyGrader.grade             *)
(* (src/src/api/grader.py).                                                *)
(*                                                                         *)
(* Number representation.  The Python code computes in binary floating     *)
(* point; the model computes in integer fixed point:                       *)
(*   - normalised coordinates and ink ratios in hundredths (0.55 -> 55);   *)
(*   - unrounded scores in thousandths of a point (83.334 -> 83334);       *)
(*   - scores after round(x, 1) in tenths of a point (83.3 -> 833);        *)
(*   - weights in hundredths (0.25 -> 25);                                 *)
(*   - angles in whole degrees.                                            *)
(* Divisions and square roots truncate at that resolution.                 *)
(***************************************************************************)
EXTENDS Integers, Sequences, FiniteSets, TLC

VARIABLES
    \* ---- CalligraphyScorer configuration and one score_char call
    weights,            \* scorer.weight_center / weight_stroke / weight_structure
    thresholds,         \* scorer.threshold_excellent / good / medium / pass
    student_features,   \* first argument of score_char
    template_features,  \* second argument of score_char
    score_result,       \* <<>> before the call, <<outcome>> after it
    self_stroke,        \* <<>> or <<score_stroke_accuracy(student, student)>>
    \* ---- score_center_of_mass calls on bare centres
    centers,            \* four centres a, b, c, d
    center_scores,      \* <<>> or <<[ab, ba, cd]>>
    \* ---- TextDetector._split_text_bbox
    split_text,         \* the text argument (sequence of characters)
    split_bbox,         \* the bbox argument (four corner points)
    split_out,          \* <<>> or <<returned list>>
    \* ---- CalligraphyGrader.grade
    image,              \* what the image path decodes to and what the oracle does
    template_source,    \* the template files and the font renderer
    templates_cache,           \* scorer.templates_cache
    template_image_cache,      \* grader.template_image_cache
    template_features_cache,   \* grader.template_features_cache
    grade_out,          \* <<>> or <<outcome of grade>>
    \* ---- TextDetector._cluster_lines
    lines,              \* the sorted, distinct coordinates passed in
    clustered,          \* <<>> or <<[clustered, member]>>
    \* ---- TextDetector._filter_by_grid_position
    grid_image,         \* image height and what _detect_grid_structure returns
    grid_boxes,         \* the chars argument
    grid_out,           \* <<>> or <<[kept, bounds, cells]>>
    \* ---- TextDetector.detect_single_chars
    detect_out,         \* <<>> or <<[out, grid_chars, fallback]>>
    \* ---- CalligraphyScorer.load_template
    load_out,           \* <<>> or <<the last sequential call>>
    callers,            \* the concurrent callers: position, local and result
    \* ---- FeedbackGenerator.generate_feedback
    feedback_out,       \* <<>> or <<returned dict>>
    \* ---- StrokeExtractor.compute_stroke_features
    skeleton,           \* the skeleton image: rows of 0 / 255 pixels
    stroke_out,         \* <<>> or <<returned dict>>
    \* ---- TextDetector._detect_grid_structure
    hough_lines,        \* what cv2.HoughLinesP returns: <<>> or <<list of segments>>
    grid_found,         \* <<>> or <<returned value>>
    \* ---- ScannerFolderHandler
    processing,         \* handler.processing
    timers,             \* the threading.Timer threads started, each on its way
                        \* through _process_file
    scanner_files,      \* the image files present in the watched folder
    scan_results,       \* how many results the callback has received
    observer,           \* the observer thread inside on_created: <<>> between
                        \* two events, or <<[path, pc]>>
    event_log           \* what became of each on_created event, in order

vars == <<weights, thresholds, student_features, template_features, score_result,
          self_stroke, centers, center_scores, split_text, split_bbox, split_out,
          image, template_source, templates_cache, template_image_cache,
          template_features_cache, grade_out, lines, clustered, grid_image,
          grid_boxes, grid_out, detect_out, load_out, callers, feedback_out,
          skeleton, stroke_out, hough_lines, grid_found, processing, timers,
          scanner_files, scan_results, observer, event_log>>

scoreVars  == <<weights, thresholds, student_features, template_features,
                score_result, self_stroke>>
centerVars == <<centers, center_scores>>
splitVars  == <<split_text, split_bbox, split_out>>
gradeVars  == <<image, template_source, templates_cache, template_image_cache,
                template_features_cache, grade_out>>
lineVars   == <<lines, clustered>>
gridVars   == <<grid_image, grid_boxes, grid_out>>
loadVars   == <<load_out, callers>>
skeletonVars == <<skeleton, stroke_out>>
houghVars  == <<hough_lines, grid_found>>
watcherVars == <<processing, timers, scanner_files, scan_results, observer,
                 event_log>>
componentVars == <<lineVars, gridVars, detect_out, loadVars, feedback_out,
                   skeletonVars, houghVars, watcherVars>>

-----------------------------------------------------------------------------
(* Python values *)

\* None is the empty option <<>>; a present value v is <<v>>.
None == <<>>
Some(v) == <<v>>

\* A call either returns a value or raises.
Return(v) == [val |-> v]
Raise(e)  == [exc |-> e]
IsRaise(r) == "exc" \in DOMAIN r

\* the empty dict {}
EmptyFn == [k \in {} |-> 0]

\* dict.get(key, default)
Get(d, key, default) == IF key \in DOMAIN d THEN d[key] ELSE default

Max(a, b) == IF a >= b THEN a ELSE b
Min(a, b) == IF a <= b THEN a ELSE b
Abs(a) == IF a >= 0 THEN a ELSE -a

\* score points -> thousandths of a point
Pt(p) == p * 1000

RECURSIVE SumTo(_, _)
\* f[0] + ... + f[n]
SumTo(f, n) == IF n < 0 THEN 0 ELSE f[n] + SumTo(f, n - 1)

RECURSIVE SqrtSearch(_, _, _)
\* the largest r in lo..hi with r*r <= n
SqrtSearch(n, lo, hi) ==
    IF lo >= hi THEN lo
    ELSE LET mid == (lo + hi + 1) \div 2
         IN  IF mid * mid <= n THEN SqrtSearch(n, mid, hi)
                               ELSE SqrtSearch(n, lo, mid - 1)

\* np.sqrt, truncated to an integer
np_sqrt(n) == SqrtSearch(n, 0, 46340)

\* Python round(x, 1): x in thousandths of a point, result in tenths; a value
\* exactly halfway goes to the even tenth.
round1(x) ==
    LET q == x \div 100
        r == x % 100
    IN  IF r < 50 THEN q
        ELSE IF r > 50 THEN q + 1
        ELSE IF q % 2 = 0 THEN q ELSE q + 1

-----------------------------------------------------------------------------
(* CalligraphyScorer *)

\* scorer.py:22-24, the defaults of weights.get(...)
DefaultWeights == [center_of_mass |-> 25, stroke_accuracy |-> 40, structure |-> 35]

\* scorer.py:28-31, the defaults of thresholds.get(...), in thousandths
DefaultThresholds ==
    [excellent |-> Pt(90), good |-> Pt(75), medium |-> Pt(60), pass |-> Pt(45)]

\* bins of np.histogram(..., bins=36, range=(-180, 180))
NumBins == 36

\* index of the histogram bin an angle falls in; the last bin is closed on the right
HistBin(a) == IF a >= 180 THEN NumBins - 1 ELSE (a + 180) \div (360 \div NumBins)

\* np.histogram(angles, bins=36, range=(-180, 180))[0]
np_histogram(angles) ==
    [b \in 0..(NumBins - 1) |->
        Cardinality({i \in DOMAIN angles : HistBin(angles[i]) = b})]

\* cv2.compareHist(h1, h2, cv2.HISTCMP_CORREL) in hundredths.  The code first
\* divides each histogram by its sum (+1e-6); the correlation does not change
\* under that positive scaling, so it is computed on the counts.
compareHist_CORREL(h1, h2) ==
    LET N   == NumBins
        s1  == SumTo(h1, N - 1)
        s2  == SumTo(h2, N - 1)
        s11 == SumTo([b \in 0..(N - 1) |-> h1[b] * h1[b]], N - 1)
        s22 == SumTo([b \in 0..(N - 1) |-> h2[b] * h2[b]], N - 1)
        s12 == SumTo([b \in 0..(N - 1) |-> h1[b] * h2[b]], N - 1)
        num == N * s12 - s1 * s2
        denom2 == (N * s11 - s1 * s1) * (N * s22 - s2 * s2)
        mag == np_sqrt((num * num * 10000) \div denom2)
    IN  IF denom2 = 0 THEN 100
        ELSE IF num >= 0 THEN mag ELSE -mag

\* score_center_of_mass with the tolerance 0.5 in place of 0.3
score_center_of_mass_wide(student_center, template_center) ==
    LET dx == student_center.x - template_center.x
        dy == student_center.y - template_center.y
        distance == np_sqrt((dx * dx + dy * dy) * 10000)
        max_deviation == 5000
    IN  Max(0, Pt(100) - (Pt(100) * distance) \div max_deviation)

\* score_center_of_mass(student_center, template_center), thousandths of a point
score_center_of_mass(student_center, template_center) ==
    LET dx == student_center.x - template_center.x
        dy == student_center.y - template_center.y
        \* distance in units of 0.0001
        distance == np_sqrt((dx * dx + dy * dy) * 10000)
        max_deviation == 3000
    IN  Max(0, Pt(100) - (Pt(100) * distance) \div max_deviation)

\* length_score without the t_length == 0 test: the division raises
length_score_unguarded(s_length, t_length) ==
    IF t_length = 0 THEN Raise("ZeroDivisionError")
    ELSE Return(Max(0, Pt(100) - (Pt(100) * Abs(s_length - t_length)) \div t_length))

\* length_score scoring the ratio itself instead of its distance from 1
length_score_ratio(s_length, t_length) ==
    IF t_length = 0 THEN Return(Pt(50))
    ELSE Return(Max(0, Pt(100) - (Pt(100) * s_length) \div t_length))

\* the length half of score_stroke_accuracy; s_length / t_length raises on 0
length_score(s_length, t_length) ==
    IF t_length = 0 THEN Return(Pt(50))
    ELSE Return(Max(0, Pt(100) - (Pt(100) * Abs(s_length - t_length)) \div t_length))

\* the angle half of score_stroke_accuracy
angle_score(s_angles, t_angles) ==
    IF Len(s_angles) > 0 /\ Len(t_angles) > 0
    THEN Pt(1) * Max(0, compareHist_CORREL(np_histogram(s_angles),
                                            np_histogram(t_angles)))
    ELSE Pt(50)

\* score_stroke_accuracy(student_features, template_features)
score_stroke_accuracy(student, template) ==
    LET s_length == Get(Get(student, "stroke_features", EmptyFn),
                        "total_length", 0)
        t_length == Get(Get(template, "stroke_features", EmptyFn),
                        "total_length", 0)
        ls == length_score(s_length, t_length)
        s_angles == Get(student, "angles", <<>>)
        t_angles == Get(template, "angles", <<>>)
    IN  IF IsRaise(ls) THEN ls
        ELSE Return((ls.val + angle_score(s_angles, t_angles)) \div 2)

\* one term of score_structure: 100 * max(0, 1 - diff * 3)
ratio_term(s, t) == Max(0, Pt(100) - 3 * Pt(1) * Abs(s - t))

\* score_structure(student_features, template_features)
score_structure(student, template) ==
    LET s_ratios == Get(student, "ratios", EmptyFn)
        t_ratios == Get(template, "ratios", EmptyFn)
        both(k) == k \in DOMAIN s_ratios /\ k \in DOMAIN t_ratios
        scores ==
            (IF both("upper_ratio")
             THEN <<ratio_term(s_ratios.upper_ratio, t_ratios.upper_ratio)>>
             ELSE <<>>)
            \o
            (IF both("left_ratio")
             THEN <<ratio_term(s_ratios.left_ratio, t_ratios.left_ratio)>>
             ELSE <<>>)
    IN  IF Len(scores) = 0 THEN Pt(50)
        ELSE IF Len(scores) = 1 THEN scores[1]
        ELSE (scores[1] + scores[2]) \div 2

\* grade_of with strict comparisons
grade_of_strict(total_score, th) ==
    IF total_score > th.excellent THEN "excellent"
    ELSE IF total_score > th.good THEN "good"
    ELSE IF total_score > th.medium THEN "medium"
    ELSE IF total_score > th.pass THEN "pass"
    ELSE "needs_improvement"

\* the if/elif chain of score_char (labels: excellent = '优秀', good = '良好',
\* medium = '中等', pass = '及格', needs_improvement = '需加强')
grade_of(total_score, th) ==
    IF total_score >= th.excellent THEN "excellent"
    ELSE IF total_score >= th.good THEN "good"
    ELSE IF total_score >= th.medium THEN "medium"
    ELSE IF total_score >= th.pass THEN "pass"
    ELSE "needs_improvement"

\* weighted_total with the stroke and structure weights exchanged
weighted_total_swapped(w, center_score, stroke_score, structure_score) ==
    (w.center_of_mass * center_score + w.structure * stroke_score
       + w.stroke_accuracy * structure_score) \div 100

\* weighted sum of score_char, thousandths of a point
weighted_total(w, center_score, stroke_score, structure_score) ==
    (w.center_of_mass * center_score + w.stroke_accuracy * stroke_score
       + w.structure * structure_score) \div 100

DefaultCenter == [x |-> 50, y |-> 50]

\* score_char(student_features, template_features) of a scorer configured with
\* weights w and thresholds th
score_char(w, th, student, template) ==
    LET center_score == score_center_of_mass(
                            Get(student, "center_of_mass", DefaultCenter),
                            Get(template, "center_of_mass", DefaultCenter))
        stroke == score_stroke_accuracy(student, template)
        structure_score == score_structure(student, template)
        total_score == weighted_total(w, center_score, stroke.val, structure_score)
    IN  IF IsRaise(stroke) THEN stroke
        ELSE Return([total_score |-> round1(total_score),
                     grade |-> grade_of(total_score, th),
                     dimensions |-> [center_of_mass |-> round1(center_score),
                                     stroke_accuracy |-> round1(stroke.val),
                                     structure |-> round1(structure_score)],
                     student_features |-> student,
                     template_features |-> template])

-----------------------------------------------------------------------------
(* TextDetector._split_text_bbox *)

\* A text is a sequence of characters; a single character is a text of length 1.
\* A point of a split box is kept exactly, as numerators x, y over the common
\* denominator den.
Point(px, py, d) == [x |-> px, y |-> py, den |-> d]

\* p + (q - p) * (i / n), as a point over the denominator n
Interpolate(p, q, i, n) ==
    Point(n * p.x + (q.x - p.x) * i, n * p.y + (q.y - p.y) * i, n)

\* split_text_bbox taking bbox[2] for the bottom-left and bbox[3] for the
\* bottom-right corner
split_text_bbox_corners(text, bbox) ==
    LET n == Len(text)
        top_left == bbox[1]
        top_right == bbox[2]
        bottom_right == bbox[4]
        bottom_left == bbox[3]
    IN  IF n <= 1
        THEN <<[char |-> text, bbox |-> bbox, confidence |-> 100]>>
        ELSE [k \in 1..n |->
                 [char |-> SubSeq(text, k, k),
                  bbox |-> <<Interpolate(top_left, top_right, k - 1, n),
                             Interpolate(top_left, top_right, k, n),
                             Interpolate(bottom_left, bottom_right, k, n),
                             Interpolate(bottom_left, bottom_right, k - 1, n)>>,
                  confidence |-> 100]]

\* _split_text_bbox(text, bbox); the loop index i of the code is k - 1, and the
\* confidence 1.0 is 100 hundredths
split_text_bbox(text, bbox) ==
    LET n == Len(text)
        top_left == bbox[1]
        top_right == bbox[2]
        bottom_right == bbox[3]
        bottom_left == bbox[4]
    IN  IF n <= 1
        THEN <<[char |-> text, bbox |-> bbox, confidence |-> 100]>>
        ELSE [k \in 1..n |->
                 [char |-> SubSeq(text, k, k),
                  bbox |-> <<Interpolate(top_left, top_right, k - 1, n),
                             Interpolate(top_left, top_right, k, n),
                             Interpolate(bottom_left, bottom_right, k, n),
                             Interpolate(bottom_left, bottom_right, k - 1, n)>>,
                  confidence |-> 100]]

-----------------------------------------------------------------------------
(* TextDetector: the oracle seam, splitting, filtering and cropping *)

\* An image is a record
\*   decodable   whether cv2.imdecode gives an image for the path
\*   width, height   its shape
\*   oracle      what each PaddleOCR entry point does when called: "ok" or the
\*               exception it raises
\*   detections  the parsed result of an entry point that returns
\*   grid        whether _detect_grid_structure finds a valid grid
\* and a detection is {text, bbox, confidence} plus what the image shows at that
\* box: ink (the FeatureSet extraction measures there), in_writing_cell (the box
\* centroid lies in the table and in the right 55% of its cell) and handwritten
\* (the verdict of _is_handwritten on its crop).

\* the boxes the oracle reports, each with its position in the report (at),
\* under which the model looks up what the image shows there
reported_boxes(img) ==
    [d \in 1..Len(img.detections) |-> img.detections[d] @@ ("at" :> d)]

\* _parse_new_api_result(result): entries with an empty text are skipped
parse_new_api_result(result) ==
    LET HasText(det) == det.text # <<>>
    IN  SelectSeq(result, HasText)

\* _parse_old_api_result(result): every line is kept
parse_old_api_result(result) == result

\* detect_and_recognize(image): predict, then ocr(cls=True), then ocr
detect_and_recognize(img) ==
    LET o == img.oracle
    IN  IF o.predict = "ok" THEN Return(parse_new_api_result(reported_boxes(img)))
        ELSE IF o.predict \in {"TypeError", "AttributeError"}
        THEN IF o.ocr_cls = "ok" THEN Return(parse_old_api_result(reported_boxes(img)))
             ELSE IF o.ocr_cls = "TypeError"
             THEN IF o.ocr = "ok"
                  THEN Return(parse_old_api_result(reported_boxes(img)))
                  ELSE Raise(o.ocr)
             ELSE Raise(o.ocr_cls)
        ELSE Raise(o.predict)

\* numpy astype(np.int32) of the coordinate num / den: truncation towards zero
astype_int32(num, den) ==
    IF num >= 0 THEN num \div den ELSE -((-num) \div den)

\* the smallest and the largest element of a non-empty set of integers
SetMin(S) == CHOOSE m \in S : \A e \in S : m <= e
SetMax(S) == CHOOSE m \in S : \A e \in S : m >= e

\* crop_char(image, bbox): the slice image[y_min:y_max, x_min:x_max], as its bounds
crop_char(img, bbox) ==
    LET xs == {astype_int32(bbox[c].x, bbox[c].den) : c \in 1..4}
        ys == {astype_int32(bbox[c].y, bbox[c].den) : c \in 1..4}
    IN  [x_min |-> Max(0, SetMin(xs)), x_max |-> Min(img.width, SetMax(xs)),
         y_min |-> Max(0, SetMin(ys)), y_max |-> Min(img.height, SetMax(ys))]

\* ndarray.size of a crop: an empty slice where a bound pair is not increasing
crop_size(crop) ==
    Max(0, crop.x_max - crop.x_min) * Max(0, crop.y_max - crop.y_min)

RECURSIVE single_chars_from(_, _)
\* the split loop of detect_single_chars over detections d..Len(dets); each
\* entry also records the reported box it was cut from (at)
single_chars_from(dets, d) ==
    IF d > Len(dets) THEN <<>>
    ELSE LET det == dets[d]
             here == IF Len(det.text) > 1
                     THEN split_text_bbox(det.text, det.bbox)
                     ELSE <<[char |-> det.text, bbox |-> det.bbox,
                             confidence |-> det.confidence]>>
         IN  [k \in 1..Len(here) |-> here[k] @@ ("at" :> det.at)]
             \o single_chars_from(dets, d + 1)

\* _filter_by_grid_position(image, chars): [] when no grid is detected
filter_by_grid_position(img, chars) ==
    LET InCell(ch) == img.detections[ch.at].in_writing_cell
        kept == SelectSeq(chars, InCell)
    IN  IF ~img.grid THEN <<>>
        ELSE [k \in 1..Len(kept) |->
                 kept[k] @@ ("cell_position" :> "right") @@ ("in_table" :> TRUE)]

\* _filter_handwritten_chars(image, chars)
filter_handwritten_chars(img, chars) ==
    LET Keep(ch) == /\ crop_size(crop_char(img, ch.bbox)) # 0
                    /\ img.detections[ch.at].handwritten
        kept == SelectSeq(chars, Keep)
    IN  [k \in 1..Len(kept) |-> kept[k] @@ ("handwritten_confidence" :> 100)]

\* detect_single_chars(image), filter_printed = True
detect_single_chars(img) ==
    LET detections == detect_and_recognize(img)
        single_chars == single_chars_from(detections.val, 1)
        grid_chars == filter_by_grid_position(img, single_chars)
    IN  IF IsRaise(detections) THEN detections
        ELSE IF Len(grid_chars) > 0 THEN Return(grid_chars)
        ELSE Return(filter_handwritten_chars(img, single_chars))

-----------------------------------------------------------------------------
(* TextDetector._cluster_lines *)

\* the threshold _detect_grid_structure passes to _cluster_lines
ClusterThreshold == 20

RECURSIVE cluster_lines_upto_by_gap(_, _, _)
\* _cluster_lines comparing each coordinate with the coordinate before it
cluster_lines_upto_by_gap(coords, threshold, n) ==
    IF n = 0 THEN [clustered |-> <<>>, member |-> <<>>]
    ELSE IF n = 1 THEN [clustered |-> <<coords[1]>>, member |-> <<1>>]
    ELSE CHOOSE after \in
             {IF coords[n] - coords[n - 1] > threshold
              THEN [clustered |-> Append(prev.clustered, coords[n]),
                    member |-> Append(prev.member, Len(prev.clustered) + 1)]
              ELSE [clustered |->
                       [prev.clustered EXCEPT ![Len(prev.clustered)] =
                           (@ + coords[n]) \div 2],
                    member |-> Append(prev.member, Len(prev.clustered))] :
                 prev \in {cluster_lines_upto_by_gap(coords, threshold, n - 1)}} : TRUE

RECURSIVE cluster_lines_upto(_, _, _)
\* the loop of _cluster_lines after the first n coordinates: the clustered list,
\* and for each coordinate read the index of the cluster it went into (member,
\* which the code does not keep)
cluster_lines_upto(coords, threshold, n) ==
    IF n = 0 THEN [clustered |-> <<>>, member |-> <<>>]
    ELSE IF n = 1 THEN [clustered |-> <<coords[1]>>, member |-> <<1>>]
    ELSE CHOOSE after \in
             {IF coords[n] - prev.clustered[Len(prev.clustered)] > threshold
              THEN [clustered |-> Append(prev.clustered, coords[n]),
                    member |-> Append(prev.member, Len(prev.clustered) + 1)]
              ELSE [clustered |->
                       [prev.clustered EXCEPT ![Len(prev.clustered)] =
                           (@ + coords[n]) \div 2],
                    member |-> Append(prev.member, Len(prev.clustered))] :
                 prev \in {cluster_lines_upto(coords, threshold, n - 1)}} : TRUE

\* _cluster_lines(lines, threshold)
cluster_lines(coords, threshold) ==
    cluster_lines_upto(coords, threshold, Len(coords)).clustered


-----------------------------------------------------------------------------
(* TextDetector._filter_by_grid_position on the lines of a detected grid *)

\* np.mean(bbox[:, 0]) and np.mean(bbox[:, 1]) as fractions num / den: the sum of
\* the four corner coordinates over four times their denominator (the corners of
\* one box share it)
char_center(bbox) ==
    [x |-> bbox[1].x + bbox[2].x + bbox[3].x + bbox[4].x,
     y |-> bbox[1].y + bbox[2].y + bbox[3].y + bbox[4].y,
     den |-> 4 * bbox[1].den]

RECURSIVE first_line_past_or_on(_, _, _)
\* the first line at or past min_table_top
first_line_past_or_on(sorted_lines, i, img_height) ==
    IF i > Len(sorted_lines) THEN None
    ELSE IF 100 * sorted_lines[i] >= 15 * img_height THEN Some(sorted_lines[i])
    ELSE first_line_past_or_on(sorted_lines, i + 1, img_height)

\* the first line strictly past min_table_top = img_height * 0.15, if any
RECURSIVE first_line_past(_, _, _)
first_line_past(sorted_lines, i, img_height) ==
    IF i > Len(sorted_lines) THEN None
    ELSE IF 100 * sorted_lines[i] > 15 * img_height THEN Some(sorted_lines[i])
    ELSE first_line_past(sorted_lines, i + 1, img_height)

\* the table boundaries, the top one moved below the title rows
table_bounds(img_height, vertical_lines, horizontal_lines) ==
    LET table_top == horizontal_lines[1]
        past == first_line_past(horizontal_lines, 1, img_height)
    IN  [table_left |-> vertical_lines[1],
         table_right |-> vertical_lines[Len(vertical_lines)],
         table_top |-> IF 100 * table_top < 15 * img_height /\ past # None
                       THEN past[1] ELSE table_top,
         table_bottom |-> horizontal_lines[Len(horizontal_lines)]]

\* table_left <= x <= table_right and table_top <= y <= table_bottom
in_table(bounds, center) ==
    /\ bounds.table_left * center.den <= center.x
    /\ center.x <= bounds.table_right * center.den
    /\ bounds.table_top * center.den <= center.y
    /\ center.y <= bounds.table_bottom * center.den

RECURSIVE bracket_point(_, _, _, _, _)
\* one loop of _find_cell_for_point from the i-th line on, for the coordinate
\* num / den: the last line at or before it seen so far and the first line at or
\* after it, where the loop breaks
bracket_point(grid_lines, i, num, den, before) ==
    IF i > Len(grid_lines) THEN [before |-> before, after |-> None]
    ELSE LET line == grid_lines[i]
             seen == IF line * den <= num THEN Some(line) ELSE before
         IN  IF line * den >= num THEN [before |-> seen, after |-> Some(line)]
             ELSE bracket_point(grid_lines, i + 1, num, den, seen)

\* _find_cell_for_point(x, y, vertical_lines, horizontal_lines): None, or the
\* cell as [cell_left, cell_right, cell_top, cell_bottom]
find_cell_for_point(center, vertical_lines, horizontal_lines) ==
    LET across == bracket_point(vertical_lines, 1, center.x, center.den, None)
        down == bracket_point(horizontal_lines, 1, center.y, center.den, None)
    IN  IF across.before # None /\ across.after # None
           /\ down.before # None /\ down.after # None
        THEN Some([cell_left |-> across.before[1], cell_right |-> across.after[1],
                   cell_top |-> down.before[1], cell_bottom |-> down.after[1]])
        ELSE None

\* char_center_x >= right_threshold instead of >
past_right_threshold_or_on_it(cell, center) ==
    100 * center.x >= center.den * (100 * cell.cell_left
                                     + 45 * (cell.cell_right - cell.cell_left))

\* char_center_x > right_threshold, right_threshold = cell_left + cell_width * 0.45
past_right_threshold(cell, center) ==
    100 * center.x > center.den * (100 * cell.cell_left
                                    + 45 * (cell.cell_right - cell.cell_left))

\* the cell _filter_by_grid_position looks up for one character: "outside" when
\* the centroid is outside the table and no cell is looked up
cell_looked_up(img_height, grid_info, char_info) ==
    LET center == char_center(char_info.bbox)
        bounds == table_bounds(img_height, grid_info.vertical_lines,
                               grid_info.horizontal_lines)
    IN  IF ~in_table(bounds, center) THEN <<"outside">>
        ELSE <<"cell", find_cell_for_point(center, grid_info.vertical_lines,
                                           grid_info.horizontal_lines)>>

\* _filter_by_grid_position(image, chars), given the image height and what
\* _detect_grid_structure returned for the image
filter_by_grid_lines(img_height, grid_info, chars) ==
    LET Keep(char_info) ==
            LET looked == cell_looked_up(img_height, grid_info[1], char_info)
            IN  /\ looked[1] = "cell"
                /\ looked[2] # None
                /\ past_right_threshold(looked[2][1], char_center(char_info.bbox))
        kept == SelectSeq(chars, Keep)
    IN  IF grid_info = None THEN <<>>
        ELSE IF Len(grid_info[1].vertical_lines) < 2
                \/ Len(grid_info[1].horizontal_lines) < 2 THEN <<>>
        ELSE [k \in 1..Len(kept) |->
                 [char |-> kept[k].char, bbox |-> kept[k].bbox,
                  confidence |-> kept[k].confidence,
                  cell_position |-> "right", in_table |-> TRUE]]


-----------------------------------------------------------------------------
(* StrokeExtractor.compute_stroke_features: a skeleton image is a sequence of
   rows of pixels 0 or 255; rows and columns are counted from 1 *)

Rows(sk) == Len(sk)
Cols(sk) == Len(sk[1])

\* np.argwhere order: all positions <<row, col>>, row by row
Positions(sk) ==
    [i \in 1..(Rows(sk) * Cols(sk)) |->
        <<((i - 1) \div Cols(sk)) + 1, ((i - 1) % Cols(sk)) + 1>>]

\* np.argwhere(skeleton > 0)
skeleton_points(sk) ==
    LET Set(p) == sk[p[1]][p[2]] > 0
    IN  SelectSeq(Positions(sk), Set)

\* (skeleton > 0).astype(np.uint8) at a position
binary_skeleton(sk, r, c) == IF sk[r][c] > 0 THEN 1 ELSE 0

\* cv2.filter2D's default border, BORDER_REFLECT_101, for an index into 1..n
\* (n >= 2): the pixel read for an index outside the image is the one mirrored
\* about the border pixel
reflect_101(i, n) ==
    IF i < 1 THEN 2 - i ELSE IF i > n THEN 2 * n - i ELSE i

NeighbourOffsets ==
    {<<dr, dc>> : dr \in {-1, 0, 1}, dc \in {-1, 0, 1}} \ {<<0, 0>>}

RECURSIVE SumOver(_, _, _, _)
\* the sum of binary_skeleton over the pixels filter2D reads for the offsets
SumOver(sk, r, c, offsets) ==
    IF offsets = {} THEN 0
    ELSE LET o == CHOOSE o \in offsets : TRUE
         IN  binary_skeleton(sk, reflect_101(r + o[1], Rows(sk)),
                             reflect_101(c + o[2], Cols(sk)))
             + SumOver(sk, r, c, offsets \ {o})

\* neighbor_count = cv2.filter2D(binary_skeleton, -1, kernel) at a position, the
\* kernel being 3x3 ones with a zero centre (the sum is at most 8: uint8 does not
\* saturate)
neighbor_count(sk, r, c) == SumOver(sk, r, c, NeighbourOffsets)

\* _detect_key_points(skeleton)
detect_key_points(sk) ==
    LET Endpoint(p) == sk[p[1]][p[2]] > 0 /\ neighbor_count(sk, p[1], p[2]) = 1
        Junction(p) == sk[p[1]][p[2]] > 0 /\ neighbor_count(sk, p[1], p[2]) >= 3
    IN  [endpoints |-> SelectSeq(Positions(sk), Endpoint),
         junctions |-> SelectSeq(Positions(sk), Junction)]

\* compute_stroke_features(skeleton)
compute_stroke_features(sk) ==
    LET points == skeleton_points(sk)
    IN  IF Len(points) = 0
        THEN [total_length |-> 0, stroke_count |-> 0,
              endpoints |-> <<>>, junctions |-> <<>>]
        ELSE CHOOSE features \in
                 {[total_length |-> Len(points),
                   stroke_count |-> Max(1, (Len(key.endpoints) + 1) \div 2),
                   endpoints |-> key.endpoints,
                   junctions |-> key.junctions] :
                     key \in {detect_key_points(sk)}} : TRUE


-----------------------------------------------------------------------------
(* FeedbackGenerator: a message is <<key of self.templates>>, a suggestion
   <<name>> or <<name, number formatted into it>> *)

\* _analyze_center(student_center, template_center, score)
analyze_center(student_center, template_center, score) ==
    LET dx == Get(student_center, "x", 50) - Get(template_center, "x", 50)
        dy == Get(student_center, "y", 50) - Get(template_center, "y", 50)
        horizontal == IF dx < -5 THEN <<"center_left">>
                      ELSE IF dx > 5 THEN <<"center_right">> ELSE <<>>
        vertical == IF dy < -5 THEN <<"center_up">>
                    ELSE IF dy > 5 THEN <<"center_down">> ELSE <<>>
        found == horizontal \o vertical
    IN  IF score >= 850
        THEN [items |-> <<(<<"center_good">>)>>, suggestions |-> <<>>]
        ELSE [items |-> [k \in 1..Len(found) |-> <<found[k]>>],
              suggestions |-> [k \in 1..Len(found) |-> <<"move", found[k]>>]]

\* _analyze_ratios(student_ratios, template_ratios, score)
analyze_ratios(student_ratios, template_ratios, score) ==
    LET s_upper == Get(student_ratios, "upper_ratio", 50)
        t_upper == Get(template_ratios, "upper_ratio", 50)
        s_left == Get(student_ratios, "left_ratio", 50)
        t_left == Get(template_ratios, "left_ratio", 50)
        vertical == IF s_upper - t_upper > 10 THEN <<"upper_heavy">>
                    ELSE IF t_upper - s_upper > 10 THEN <<"lower_heavy">> ELSE <<>>
        horizontal == IF s_left - t_left > 10 THEN <<"left_heavy">>
                      ELSE IF t_left - s_left > 10 THEN <<"right_heavy">> ELSE <<>>
        found == vertical \o horizontal
    IN  IF score >= 850
        THEN [items |-> <<(<<"ratio_good">>)>>, suggestions |-> <<>>]
        ELSE [items |-> [k \in 1..Len(found) |-> <<found[k]>>],
              suggestions |-> [k \in 1..Len(found) |-> <<"balance", found[k]>>]]

\* _analyze_strokes with the stroke count suggestion outside the else branch
analyze_strokes_count_always(student_strokes, template_strokes, score) ==
    LET s_length == Get(student_strokes, "total_length", 0)
        t_length == Get(template_strokes, "total_length", 0)
        s_count == Get(student_strokes, "stroke_count", 0)
        t_count == Get(template_strokes, "stroke_count", 0)
        \* ratio < 0.85, ratio > 1.15
        found == IF t_length > 0 /\ 100 * s_length < 85 * t_length
                 THEN <<"stroke_short">>
                 ELSE IF t_length > 0 /\ 100 * s_length > 115 * t_length
                 THEN <<"stroke_long">> ELSE <<>>
        counts == IF s_count # t_count /\ t_count > 0
                  THEN <<(<<"stroke_count", t_count>>)>> ELSE <<>>
    IN  IF score >= 850
        THEN [items |-> <<(<<"stroke_good">>)>>, suggestions |-> counts]
        ELSE [items |-> [k \in 1..Len(found) |-> <<found[k]>>],
              suggestions |->
                  [k \in 1..Len(found) |-> <<"stretch", found[k]>>] \o counts]

\* _analyze_strokes(student_strokes, template_strokes, score)
analyze_strokes(student_strokes, template_strokes, score) ==
    LET s_length == Get(student_strokes, "total_length", 0)
        t_length == Get(template_strokes, "total_length", 0)
        s_count == Get(student_strokes, "stroke_count", 0)
        t_count == Get(template_strokes, "stroke_count", 0)
        \* ratio < 0.85, ratio > 1.15
        found == IF t_length > 0 /\ 100 * s_length < 85 * t_length
                 THEN <<"stroke_short">>
                 ELSE IF t_length > 0 /\ 100 * s_length > 115 * t_length
                 THEN <<"stroke_long">> ELSE <<>>
        counts == IF s_count # t_count /\ t_count > 0
                  THEN <<(<<"stroke_count", t_count>>)>> ELSE <<>>
    IN  IF score >= 850
        THEN [items |-> <<(<<"stroke_good">>)>>, suggestions |-> <<>>]
        ELSE [items |-> [k \in 1..Len(found) |-> <<found[k]>>],
              suggestions |->
                  [k \in 1..Len(found) |-> <<"stretch", found[k]>>] \o counts]

\* _get_overall_comment(grade)
get_overall_comment(grade) ==
    IF grade \in {"excellent", "good", "medium", "pass"} THEN <<grade>>
    ELSE IF grade = "needs_improvement" THEN <<"need_improve">>
    ELSE <<"keep_trying">>

\* generate_feedback(score_result)
generate_feedback(sr) ==
    LET dimensions == Get(sr, "dimensions", EmptyFn)
        sf == Get(sr, "student_features", EmptyFn)
        tf == Get(sr, "template_features", EmptyFn)
        center_feedback ==
            analyze_center(Get(sf, "center_of_mass", EmptyFn),
                           Get(tf, "center_of_mass", EmptyFn),
                           Get(dimensions, "center_of_mass", 0))
        ratio_feedback ==
            analyze_ratios(Get(sf, "ratios", EmptyFn), Get(tf, "ratios", EmptyFn),
                           Get(dimensions, "structure", 0))
        stroke_feedback ==
            analyze_strokes(Get(sf, "stroke_features", EmptyFn),
                            Get(tf, "stroke_features", EmptyFn),
                            Get(dimensions, "stroke_accuracy", 0))
    IN  [overall_comment |-> get_overall_comment(Get(sr, "grade", "")),
         feedback_items |-> center_feedback.items \o ratio_feedback.items
                              \o stroke_feedback.items,
         suggestions |-> center_feedback.suggestions \o ratio_feedback.suggestions
                           \o stroke_feedback.suggestions,
         score |-> Get(sr, "total_score", 0),
         grade |-> Get(sr, "grade", "")]

-----------------------------------------------------------------------------
(* Inputs of the scorer *)

\* longest angle list drawn
MaxAngles == 2

AngleSamples == {0, 90}

RECURSIVE SeqsUpTo(_, _)
\* all sequences over S of length at most n
SeqsUpTo(S, n) ==
    IF n = 0 THEN {<<>>}
    ELSE LET shorter == SeqsUpTo(S, n - 1)
         IN  shorter \cup {Append(q, e) : q \in shorter, e \in S}

\* the angle lists drawn: np.histogram does not read the order, so each multiset
\* of angles is drawn once, in non-decreasing order
AngleLists ==
    {a \in SeqsUpTo(AngleSamples, MaxAngles) :
        \A i \in 1..(Len(a) - 1) : a[i] <= a[i + 1]}

\* compute_aspect_ratio's dict for an upper share u and a left share l
Ratios(u, l) ==
    [upper_ratio |-> u, lower_ratio |-> 100 - u,
     left_ratio |-> l, right_ratio |-> 100 - l]

\* full dicts as compute_aspect_ratio returns them, and partial ones as a direct
\* caller of score_char may pass them
RatioSamples ==
    {Ratios(50, 50), Ratios(70, 40),
     [upper_ratio |-> 50, lower_ratio |-> 50], [k \in {} |-> 0]}

CenterSamples == {[x |-> 50, y |-> 50], [x |-> 55, y |-> 50]}

\* total_length and stroke_count of compute_stroke_features (its endpoints and
\* junctions lists are read by no consumer modelled here)
StrokeSamples ==
    {[total_length |-> 0, stroke_count |-> 0],
     [total_length |-> 500, stroke_count |-> 3],
     [total_length |-> 900, stroke_count |-> 5],
     [total_length |-> 1000, stroke_count |-> 5]}

\* the dict extract_all_features returns (without the skeleton image)
FeatureSet(c, r, s, a) ==
    [center_of_mass |-> c, ratios |-> r, stroke_features |-> s, angles |-> a]

FeatureSets ==
    {FeatureSet(c, r, s, a) :
        c \in CenterSamples, r \in RatioSamples, s \in StrokeSamples, a \in AngleLists}

\* the FeatureSets drawn as templates
TemplateFeatureSets ==
    {f \in FeatureSets : f.center_of_mass = [x |-> 50, y |-> 50]}

\* the FeatureSets extract_all_features can return: all four ratios are present,
\* and there is one angle per skeleton pixel, so the angle list is empty exactly
\* when total_length is 0 (the lists drawn stand for the angle distribution of a
\* longer skeleton)
ExtractedFeatureSets ==
    {f \in FeatureSets :
        /\ DOMAIN f.ratios = {"upper_ratio", "lower_ratio", "left_ratio", "right_ratio"}
        /\ (f.angles = <<>>) <=> (f.stroke_features.total_length = 0)}

\* extract_all_features of an all-background mask: compute_center_of_mass gives
\* (0.5, 0.5) when m00 = 0, compute_aspect_ratio gives 0.5 / 0.5 when no pixel is
\* set, compute_stroke_features gives length 0 and count 0 for an empty skeleton,
\* compute_stroke_angles gives the empty list
EmptyMaskFeatures ==
    FeatureSet([x |-> 50, y |-> 50], Ratios(50, 50),
               [total_length |-> 0, stroke_count |-> 0], <<>>)

MisconfiguredWeights ==
    [center_of_mass |-> 50, stroke_accuracy |-> 50, structure |-> 50]

CustomThresholds ==
    [excellent |-> Pt(100), good |-> Pt(80), medium |-> Pt(50), pass |-> Pt(30)]

\* the scoring sections of the config dict the scorer is constructed with
ScorerConfigs ==
    {[weights |-> DefaultWeights, thresholds |-> DefaultThresholds],
     [weights |-> MisconfiguredWeights, thresholds |-> DefaultThresholds],
     [weights |-> DefaultWeights, thresholds |-> CustomThresholds]}

-----------------------------------------------------------------------------
(* Templates: CalligraphyScorer.load_template and the grader's caches *)

\* A template source is a record of sets of characters: prebaked (a readable
\* <char>.png in the templates folder), rendered (one in its rendered subfolder),
\* font (the font renderer exists and renders the character) and font_raises
\* (the renderer exists and render_char raises for it).

\* the default target_size of load_template
TargetSize == <<256, 256>>

\* renderer.render_char(char, target_size) of the font renderer, when there is one
render_char(source, char) ==
    IF char \in source.font_raises THEN Raise("Exception")
    ELSE Return([glyph |-> char, from |-> "font"])

\* the three methods with the rendered subfolder tried before the prebaked file
resolve_template_rendered_first(source, char) ==
    IF char \in source.rendered
    THEN [template |-> Some([glyph |-> char, from |-> "rendered"]),
          consulted |-> <<"rendered">>]
    ELSE IF char \in source.prebaked
    THEN [template |-> Some([glyph |-> char, from |-> "prebaked"]),
          consulted |-> <<"rendered", "prebaked">>]
    ELSE [template |-> IF char \in source.font /\ char \notin source.font_raises
                       THEN Some([glyph |-> char, from |-> "font"]) ELSE None,
          consulted |-> <<"rendered", "prebaked", "font">>]

\* the three methods of load_template in turn: the template found, or None, and
\* the sources the call went to (consulted, which the code does not keep)
resolve_template(source, char) ==
    LET rendered == IF char \in source.font THEN render_char(source, char)
                    ELSE Raise("no renderer")
    IN  IF char \in source.prebaked
        THEN [template |-> Some([glyph |-> char, from |-> "prebaked"]),
              consulted |-> <<"prebaked">>]
        ELSE IF char \in source.rendered
        THEN [template |-> Some([glyph |-> char, from |-> "rendered"]),
              consulted |-> <<"prebaked", "rendered">>]
        ELSE [template |-> IF IsRaise(rendered) THEN None ELSE Some(rendered.val),
              consulted |-> <<"prebaked", "rendered", "font">>]

\* load_template that stores an empty template under the key when none resolves
load_template_storing_not_found(cache, source, char) ==
    LET cache_key == <<char, TargetSize>>
        found == resolve_template(source, char)
    IN  IF cache_key \in DOMAIN cache
        THEN [template |-> Some(cache[cache_key]), templates_cache |-> cache,
              consulted |-> <<>>]
        ELSE IF found.template # None
        THEN [template |-> found.template,
              templates_cache |-> cache @@ (cache_key :> found.template[1]),
              consulted |-> found.consulted]
        ELSE [template |-> None,
              templates_cache |->
                 cache @@ (cache_key :> [glyph |-> <<>>, from |-> "none"]),
              consulted |-> found.consulted]

\* load_template that resolves before it looks into the cache
load_template_uncached(cache, source, char) ==
    LET cache_key == <<char, TargetSize>>
        found == resolve_template(source, char)
    IN  IF found.template # None
        THEN [template |-> found.template,
              templates_cache |->
                 [k \in DOMAIN cache \cup {cache_key} |->
                     IF k = cache_key THEN found.template[1] ELSE cache[k]],
              consulted |-> found.consulted]
        ELSE [template |-> IF cache_key \in DOMAIN cache
                           THEN Some(cache[cache_key]) ELSE None,
              templates_cache |-> cache, consulted |-> found.consulted]

\* load_template(char): the template found, or None, the scorer's cache after,
\* and the sources consulted
load_template(cache, source, char) ==
    LET cache_key == <<char, TargetSize>>
        found == resolve_template(source, char)
    IN  IF cache_key \in DOMAIN cache
        THEN [template |-> Some(cache[cache_key]), templates_cache |-> cache,
              consulted |-> <<>>]
        ELSE IF found.template # None
        THEN [template |-> found.template,
              templates_cache |-> cache @@ (cache_key :> found.template[1]),
              consulted |-> found.consulted]
        ELSE [template |-> None, templates_cache |-> cache,
              consulted |-> found.consulted]

\* extract_all_features of a template image: what the glyph measures
GlyphFeatures(template) ==
    IF template.glyph = <<"a">>
    THEN FeatureSet([x |-> 50, y |-> 50], Ratios(50, 50),
                    [total_length |-> 1000, stroke_count |-> 5], <<0>>)
    ELSE FeatureSet([x |-> 50, y |-> 50], Ratios(70, 40),
                    [total_length |-> 900, stroke_count |-> 5], <<0, 90>>)

\* _get_template_features that caches the features without the template image
get_template_features_image_uncached(caches, source, char) ==
    LET loaded == load_template(caches.templates_cache, source, char)
        features == GlyphFeatures(loaded.template[1])
    IN  IF char \in DOMAIN caches.template_features_cache
        THEN [features |-> Some(caches.template_features_cache[char]),
              caches |-> caches]
        ELSE IF loaded.template = None
        THEN [features |-> None,
              caches |-> [caches EXCEPT !.templates_cache = loaded.templates_cache]]
        ELSE [features |-> Some(features),
              caches |->
                 [templates_cache |-> loaded.templates_cache,
                  template_image_cache |-> caches.template_image_cache,
                  template_features_cache |->
                     caches.template_features_cache @@ (char :> features)]]

\* _get_template_features(char): the features, or None, and the three caches after
get_template_features(caches, source, char) ==
    LET loaded == load_template(caches.templates_cache, source, char)
        features == GlyphFeatures(loaded.template[1])
    IN  IF char \in DOMAIN caches.template_features_cache
        THEN [features |-> Some(caches.template_features_cache[char]),
              caches |-> caches]
        ELSE IF loaded.template = None
        THEN [features |-> None,
              caches |-> [caches EXCEPT !.templates_cache = loaded.templates_cache]]
        ELSE [features |-> Some(features),
              caches |->
                 [templates_cache |-> loaded.templates_cache,
                  template_image_cache |->
                     [c \in DOMAIN caches.template_image_cache \cup {char} |->
                         IF c = char THEN loaded.template[1]
                         ELSE caches.template_image_cache[c]],
                  template_features_cache |->
                     caches.template_features_cache @@ (char :> features)]]

\* _get_template_image(char): the image, or None, and the three caches after
get_template_image(caches, source, char) ==
    IF char \in DOMAIN caches.template_image_cache
    THEN [image |-> Some(caches.template_image_cache[char]), caches |-> caches]
    ELSE CHOOSE returned \in
            {[image |-> IF char \in DOMAIN got.caches.template_image_cache
                        THEN Some(got.caches.template_image_cache[char])
                        ELSE None,
              caches |-> got.caches] :
                got \in {get_template_features(caches, source, char)}} : TRUE

-----------------------------------------------------------------------------
(* CalligraphyGrader.grade *)

\* the entries of results whose score is not None, as a list of scores
RECURSIVE valid_scores(_)
valid_scores(results) ==
    IF Len(results) = 0 THEN <<>>
    ELSE LET r == results[1]
         IN  (IF Get(r, "score", None) # None THEN <<r.score[1]>> ELSE <<>>)
             \o valid_scores(Tail(results))

RECURSIVE SumSeq(_)
SumSeq(q) == IF Len(q) = 0 THEN 0 ELSE q[1] + SumSeq(Tail(q))

\* round(np.mean(q), 1) of scores held in tenths: the quotient to the nearest
\* tenth, a value exactly halfway to the even tenth
round_mean(q) ==
    LET total == SumSeq(q)
        k == Len(q)
        whole == total \div k
        rest == total % k
    IN  IF 2 * rest < k THEN whole
        ELSE IF 2 * rest > k THEN whole + 1
        ELSE IF whole % 2 = 0 THEN whole ELSE whole + 1

\* overall_score taking a None score for 0
overall_score_nulls_as_zero(results) ==
    IF Len(results) = 0 THEN 0
    ELSE round_mean([k \in 1..Len(results) |->
                        IF results[k].score = None THEN 0 ELSE results[k].score[1]])

\* step 5 of grade: round(np.mean(valid_scores) if valid_scores else 0, 1)
overall_score(results) ==
    LET valid == valid_scores(results)
    IN  IF Len(valid) > 0 THEN round_mean(valid) ELSE 0

\* the entry grade appends for one character whose crop is not empty, given the
\* template features found for it (feedback 'no_template' = '未找到该字的标准模板')
grade_entry(img, w, th, char_info, found) ==
    LET student == img.detections[char_info.at].ink
        scored == score_char(w, th, student, found[1]).val
        feedback == generate_feedback(scored)
    IN  IF found = None
        THEN [char |-> char_info.char, bbox |-> char_info.bbox, score |-> None,
              feedback |-> "no_template"]
        ELSE [char |-> char_info.char, bbox |-> char_info.bbox,
              score |-> Some(scored.total_score),
              grade |-> scored.grade,
              dimensions |-> scored.dimensions,
              feedback |-> feedback.feedback_items,
              suggestions |-> feedback.suggestions]

RECURSIVE grade_loop(_, _, _, _, _, _, _, _)
\* step 4 of grade from the i-th detected character on: the results list and
\* the caches when the loop ends
grade_loop(img, source, w, th, chars, i, results, caches) ==
    IF i > Len(chars) THEN [results |-> results, caches |-> caches]
    ELSE IF crop_size(crop_char(img, chars[i].bbox)) = 0
    THEN grade_loop(img, source, w, th, chars, i + 1, results, caches)
    ELSE CHOOSE done \in
             {grade_loop(img, source, w, th, chars, i + 1,
                         Append(results, grade_entry(img, w, th, chars[i], got.features)),
                         got.caches) :
                 got \in {get_template_features(caches, source, chars[i].char)}} : TRUE

\* grade without the test for an empty detection result
grade_without_empty_test(img, source, w, th, caches) ==
    LET chars == detect_single_chars(img)
    IN  IF ~img.decodable
        THEN [out |-> Return([error |-> "cannot_read_image"]), caches |-> caches]
        ELSE IF IsRaise(chars) THEN [out |-> chars, caches |-> caches]
        ELSE CHOOSE returned \in
                 {[out |-> Return([overall_score |-> overall_score(done.results),
                                   char_count |-> Len(done.results),
                                   chars |-> done.results]),
                   caches |-> done.caches] :
                     done \in {grade_loop(img, source, w, th, chars.val, 1, <<>>,
                                          caches)}} : TRUE

\* grade(image_path): what it returns or raises, and the caches after it
\* (error 'cannot_read_image' = 'Cannot read image: <path>', 'no_text_detected' =
\* '未检测到文字')
grade(img, source, w, th, caches) ==
    LET chars == detect_single_chars(img)
    IN  IF ~img.decodable
        THEN [out |-> Return([error |-> "cannot_read_image"]), caches |-> caches]
        ELSE IF IsRaise(chars) THEN [out |-> chars, caches |-> caches]
        ELSE IF Len(chars.val) = 0
        THEN [out |-> Return([error |-> "no_text_detected"]), caches |-> caches]
        ELSE CHOOSE returned \in
                 {[out |-> Return([overall_score |-> overall_score(done.results),
                                   char_count |-> Len(done.results),
                                   chars |-> done.results]),
                   caches |-> done.caches] :
                     done \in {grade_loop(img, source, w, th, chars.val, 1, <<>>,
                                          caches)}} : TRUE

-----------------------------------------------------------------------------
(* Inputs of grade *)

\* most oracle boxes per image
MaxBoxes == 2

\* a box with top-left corner (x, y), w wide and h high
Box(x, y, w, h) ==
    <<Point(x, y, 1), Point(x + w, y, 1), Point(x + w, y + h, 1), Point(x, y + h, 1)>>

InkSamples ==
    [good |-> FeatureSet([x |-> 55, y |-> 50], Ratios(50, 50),
                         [total_length |-> 900, stroke_count |-> 5], <<0>>),
     poor |-> FeatureSet([x |-> 55, y |-> 50], Ratios(70, 40),
                         [total_length |-> 500, stroke_count |-> 3], <<0, 90>>),
     blank |-> EmptyMaskFeatures]

\* oracle boxes: single characters and two-character lines, one of them so
\* narrow that the crop of its first half is empty, and one printed character
DetSamples ==
    {[text |-> <<"a">>, bbox |-> Box(50, 20, 30, 30), confidence |-> 98,
      ink |-> InkSamples.good, in_writing_cell |-> TRUE, handwritten |-> TRUE],
     [text |-> <<"b">>, bbox |-> Box(50, 60, 30, 30), confidence |-> 90,
      ink |-> InkSamples.poor, in_writing_cell |-> FALSE, handwritten |-> TRUE],
     [text |-> <<"a", "b">>, bbox |-> Box(10, 20, 60, 30), confidence |-> 95,
      ink |-> InkSamples.poor, in_writing_cell |-> TRUE, handwritten |-> TRUE],
     [text |-> <<"b", "a">>, bbox |-> Box(70, 20, 1, 30), confidence |-> 80,
      ink |-> InkSamples.blank, in_writing_cell |-> TRUE, handwritten |-> TRUE],
     [text |-> <<"b">>, bbox |-> Box(10, 60, 30, 30), confidence |-> 99,
      ink |-> InkSamples.good, in_writing_cell |-> FALSE, handwritten |-> FALSE]}

\* what predict, ocr(cls=True) and ocr do when called
OracleSamples ==
    {[predict |-> "ok", ocr_cls |-> "ok", ocr |-> "ok"],
     [predict |-> "TypeError", ocr_cls |-> "ok", ocr |-> "ok"],
     [predict |-> "AttributeError", ocr_cls |-> "TypeError", ocr |-> "ok"],
     [predict |-> "RuntimeError", ocr_cls |-> "ok", ocr |-> "ok"],
     [predict |-> "TypeError", ocr_cls |-> "RuntimeError", ocr |-> "ok"],
     [predict |-> "AttributeError", ocr_cls |-> "TypeError", ocr |-> "RuntimeError"]}

Images ==
    {[decodable |-> FALSE]}
    \cup
    {[decodable |-> TRUE, width |-> 100, height |-> 100, oracle |-> o,
      detections |-> d, grid |-> g] :
        o \in OracleSamples, d \in SeqsUpTo(DetSamples, MaxBoxes), g \in BOOLEAN}

TemplateSources ==
    {[prebaked |-> {<<"a">>, <<"b">>}, rendered |-> {}, font |-> {}, font_raises |-> {}],
     [prebaked |-> {}, rendered |-> {<<"a">>}, font |-> {}, font_raises |-> {}],
     [prebaked |-> {}, rendered |-> {}, font |-> {<<"a">>, <<"b">>},
      font_raises |-> {<<"a">>}],
     [prebaked |-> {}, rendered |-> {}, font |-> {}, font_raises |-> {}]}

-----------------------------------------------------------------------------
(* Idle values of each group of variables *)

ScoreIdle ==
    /\ weights = DefaultWeights
    /\ thresholds = DefaultThresholds
    /\ student_features = EmptyMaskFeatures
    /\ template_features = EmptyMaskFeatures
    /\ score_result = None
    /\ self_stroke = None

CenterIdle ==
    /\ centers = <<>>
    /\ center_scores = None

SplitIdle ==
    /\ split_text = <<>>
    /\ split_bbox = <<>>
    /\ split_out = None

GradeIdle ==
    /\ image = [decodable |-> FALSE]
    /\ template_source = [prebaked |-> {}, rendered |-> {}, font |-> {}, font_raises |-> {}]
    /\ templates_cache = EmptyFn
    /\ template_image_cache = EmptyFn
    /\ template_features_cache = EmptyFn
    /\ grade_out = None

LineIdle ==
    /\ lines = <<>>
    /\ clustered = None

GridIdle ==
    /\ grid_image = [height |-> 0, grid_info |-> None]
    /\ grid_boxes = <<>>
    /\ grid_out = None

LoadIdle ==
    /\ load_out = None
    /\ callers = <<>>

SkeletonIdle ==
    /\ skeleton = <<>>
    /\ stroke_out = None

HoughIdle ==
    /\ hough_lines = None
    /\ grid_found = None

WatcherIdle ==
    /\ processing = {}
    /\ timers = <<>>
    /\ scanner_files = {}
    /\ scan_results = 0
    /\ observer = None
    /\ event_log = <<>>

ComponentIdle ==
    /\ LineIdle /\ GridIdle /\ LoadIdle /\ SkeletonIdle
    /\ HoughIdle /\ WatcherIdle
    /\ detect_out = None
    /\ feedback_out = None

-----------------------------------------------------------------------------
(* score_char on a configured scorer *)

\* a student whose skeleton is 499 long: against a template 1000 long with the
\* same centre, ratios and angles the weighted total is 89.98
BorderlineStudents ==
    {FeatureSet([x |-> 50, y |-> 50], Ratios(50, 50),
                [total_length |-> 499, stroke_count |-> 3], <<0>>)}

InitScore ==
    /\ \E cfg \in ScorerConfigs :
          /\ weights = cfg.weights
          /\ thresholds = cfg.thresholds
    /\ student_features \in FeatureSets \cup BorderlineStudents
    /\ template_features \in TemplateFeatureSets
    /\ score_result = None
    /\ self_stroke = None
    /\ CenterIdle /\ SplitIdle /\ GradeIdle /\ ComponentIdle

\* scorer.score_char(student_features, template_features)
ScoreChar ==
    /\ score_result = None
    /\ score_result' =
          Some(score_char(weights, thresholds, student_features, template_features))
    /\ UNCHANGED <<weights, thresholds, student_features, template_features,
                   self_stroke>>
    /\ UNCHANGED <<centerVars, splitVars, gradeVars>>
    /\ UNCHANGED componentVars

NextScore == ScoreChar

SpecScore == InitScore /\ [][NextScore]_vars

-----------------------------------------------------------------------------
(* score_stroke_accuracy of a FeatureSet with itself *)

InitStroke ==
    /\ weights = DefaultWeights
    /\ thresholds = DefaultThresholds
    /\ student_features \in ExtractedFeatureSets
    /\ template_features = EmptyMaskFeatures
    /\ score_result = None
    /\ self_stroke = None
    /\ CenterIdle /\ SplitIdle /\ GradeIdle /\ ComponentIdle

\* scorer.score_stroke_accuracy(a, a)
ScoreStrokeSelf ==
    /\ self_stroke = None
    /\ self_stroke' = Some(score_stroke_accuracy(student_features, student_features))
    /\ UNCHANGED <<weights, thresholds, student_features, template_features,
                   score_result>>
    /\ UNCHANGED <<centerVars, splitVars, gradeVars>>
    /\ UNCHANGED componentVars

NextStroke == ScoreStrokeSelf

SpecStroke == InitStroke /\ [][NextStroke]_vars

-----------------------------------------------------------------------------
(* score_center_of_mass on pairs of centres *)

CenterPoints == {[x |-> cx, y |-> cy] : cx \in {20, 50, 55, 80}, cy \in {50, 90}}

InitCenter ==
    /\ centers \in [1..4 -> CenterPoints]
    /\ center_scores = None
    /\ ScoreIdle /\ SplitIdle /\ GradeIdle /\ ComponentIdle

\* scorer.score_center_of_mass(a, b), (b, a) and (c, d)
ScoreCenters ==
    /\ center_scores = None
    /\ center_scores' =
          Some([ab |-> score_center_of_mass(centers[1], centers[2]),
                ba |-> score_center_of_mass(centers[2], centers[1]),
                cd |-> score_center_of_mass(centers[3], centers[4])])
    /\ UNCHANGED centers
    /\ UNCHANGED <<scoreVars, splitVars, gradeVars>>
    /\ UNCHANGED componentVars

NextCenter == ScoreCenters

SpecCenter == InitCenter /\ [][NextCenter]_vars

-----------------------------------------------------------------------------
(* _split_text_bbox on one oracle box *)

\* longest text drawn
MaxTextLen == 3

Chars == {"a", "b"}

Texts == SeqsUpTo(Chars, MaxTextLen)

\* quadrilaterals top-left, top-right, bottom-right, bottom-left in pixels:
\* upright and skewed, wide and two pixels narrow
BoxSamples ==
    {<<Point(o, o, 1), Point(o + w[1], o + w[2], 1),
       Point(o + w[1] + h[1], o + w[2] + h[2], 1), Point(o + h[1], o + h[2], 1)>> :
        o \in {0, 10}, w \in {<<30, 0>>, <<30, 6>>, <<2, 0>>},
        h \in {<<0, 10>>, <<2, 10>>}}

InitSplit ==
    /\ split_text \in Texts
    /\ split_bbox \in BoxSamples
    /\ split_out = None
    /\ ScoreIdle /\ CenterIdle /\ GradeIdle /\ ComponentIdle

\* detector._split_text_bbox(text, bbox)
SplitTextBbox ==
    /\ split_out = None
    /\ split_out' = Some(split_text_bbox(split_text, split_bbox))
    /\ UNCHANGED <<split_text, split_bbox>>
    /\ UNCHANGED <<scoreVars, centerVars, gradeVars>>
    /\ UNCHANGED componentVars

NextSplit == SplitTextBbox

SpecSplit == InitSplit /\ [][NextSplit]_vars

-----------------------------------------------------------------------------
(* grade on one image, by a grader with the default scoring configuration *)

InitGrade ==
    /\ image \in Images
    /\ template_source \in TemplateSources
    /\ templates_cache = EmptyFn
    /\ template_image_cache = EmptyFn
    /\ template_features_cache = EmptyFn
    /\ grade_out = None
    /\ ScoreIdle /\ CenterIdle /\ SplitIdle /\ ComponentIdle

\* grader.grade(image_path)
Grade ==
    /\ grade_out = None
    /\ \E g \in {grade(image, template_source, weights, thresholds,
                        [templates_cache |-> templates_cache,
                         template_image_cache |-> template_image_cache,
                         template_features_cache |-> template_features_cache])} :
           /\ grade_out' = Some(g.out)
           /\ templates_cache' = g.caches.templates_cache
           /\ template_image_cache' = g.caches.template_image_cache
           /\ template_features_cache' = g.caches.template_features_cache
    /\ UNCHANGED <<image, template_source>>
    /\ UNCHANGED <<scoreVars, centerVars, splitVars>>
    /\ UNCHANGED componentVars

NextGrade == Grade

SpecGrade == InitGrade /\ [][NextGrade]_vars

-----------------------------------------------------------------------------
(* Properties of the scorer *)

Scored == score_result # None
Result == score_result[1].val

\* the three sub-scores and the weighted total before round(), recomputed from
\* the arguments of the call
RawCenter ==
    score_center_of_mass(student_features.center_of_mass,
                         template_features.center_of_mass)
RawStroke == score_stroke_accuracy(student_features, template_features).val
RawStructure == score_structure(student_features, template_features)
RawTotal ==
    (weights.center_of_mass * RawCenter + weights.stroke_accuracy * RawStroke
       + weights.structure * RawStructure) \div 100

SharedRatio(k) ==
    k \in DOMAIN student_features.ratios /\ k \in DOMAIN template_features.ratios

AnglesMissing == student_features.angles = <<>> \/ template_features.angles = <<>>

\* C4: score_char returns a ScoreResult for every pair of FeatureSets and never
\* raises; a template of length 0 contributes the neutral length score 50, an empty
\* angle list on either side the neutral angle score 50 (so both together give a
\* stroke score of exactly 50, and either alone one within 25..75), and ratio dicts
\* with no key in common the neutral structure score 50.
C4_ScoreCharTotal ==
    Scored =>
       /\ ~IsRaise(score_result[1])
       /\ DOMAIN Result = {"total_score", "grade", "dimensions",
                           "student_features", "template_features"}
       /\ Result.grade \in {"excellent", "good", "medium", "pass", "needs_improvement"}
       /\ (template_features.stroke_features.total_length = 0 /\ AnglesMissing)
             => Result.dimensions.stroke_accuracy = 500
       /\ (template_features.stroke_features.total_length = 0 \/ AnglesMissing)
             => Result.dimensions.stroke_accuracy \in 250..750
       /\ (~SharedRatio("upper_ratio") /\ ~SharedRatio("left_ratio"))
             => Result.dimensions.structure = 500

\* C4 witness: both arguments are the FeatureSet of an empty mask and the call
\* has returned
C4_Witness ==
    /\ Scored
    /\ student_features = EmptyMaskFeatures
    /\ template_features = EmptyMaskFeatures
    /\ ~IsRaise(score_result[1])
    /\ Result.dimensions.stroke_accuracy = 500

\* C5 (as claimed): every ScoreResult has total_score within [0,100], whatever
\* weights the scorer was configured with.
C5_TotalInRange ==
    Scored => (Result.total_score >= 0 /\ Result.total_score <= 1000)

\* C6: the grade is the highest band whose configured threshold the unrounded
\* total reaches, thresholds tested from excellent down and inclusive.
C6_GradeBands ==
    Scored =>
       LET t == RawTotal
           g == Result.grade
       IN  /\ (g = "excellent") <=> (t >= thresholds.excellent)
           /\ (g = "good") <=> (t < thresholds.excellent /\ t >= thresholds.good)
           /\ (g = "medium") <=>
                 (t < thresholds.excellent /\ t < thresholds.good
                    /\ t >= thresholds.medium)
           /\ (g = "pass") <=>
                 (t < thresholds.excellent /\ t < thresholds.good
                    /\ t < thresholds.medium /\ t >= thresholds.pass)
           /\ (g = "needs_improvement") <=>
                 (t < thresholds.excellent /\ t < thresholds.good
                    /\ t < thresholds.medium /\ t < thresholds.pass)

\* C6 witness: a total exactly at the default excellent threshold 90 is graded
\* excellent
C6_Witness ==
    /\ Scored
    /\ thresholds = DefaultThresholds
    /\ RawTotal = Pt(90)
    /\ Result.grade = "excellent"

SelfScored == self_stroke # None

\* C7 (as claimed): score_stroke_accuracy(a, a) = 100 for every FeatureSet a.
C7_SelfMatchAlways100 ==
    SelfScored => self_stroke[1] = Return(Pt(100))

\* C7 (amended): score_stroke_accuracy(a, a) is the mean of a length half, 100 when
\* a.total_length is not 0 and the neutral 50 when it is 0, and an angle half, 100
\* when a.angles is not empty and the neutral 50 when it is; so it is 100 exactly
\* when a has a non-zero length and a non-empty angle list, and 50 for the
\* FeatureSet of an empty mask.
C7_SelfMatch ==
    SelfScored =>
       LET a == student_features
           lengthHalf == IF a.stroke_features.total_length # 0 THEN 100 ELSE 50
           angleHalf == IF a.angles # <<>> THEN 100 ELSE 50
       IN  /\ ~IsRaise(self_stroke[1])
           /\ self_stroke[1].val = Pt(lengthHalf + angleHalf) \div 2

\* C7 witness: a FeatureSet with ink in two different angle bins scores 100
\* against itself
C7_Witness ==
    /\ SelfScored
    /\ student_features.stroke_features.total_length = 900
    /\ student_features.angles = <<0, 90>>
    /\ self_stroke[1] = Return(Pt(100))

Dist2(p, q) == (p.x - q.x) * (p.x - q.x) + (p.y - q.y) * (p.y - q.y)

\* C8: score_center_of_mass(a, b) = score_center_of_mass(b, a); a pair of centres
\* at least as far apart as another pair scores no higher; distance 0 scores 100
\* and every distance >= 0.3 scores 0.
C8_CenterScore ==
    center_scores # None =>
       LET sc == center_scores[1]
           dab == Dist2(centers[1], centers[2])
           dcd == Dist2(centers[3], centers[4])
       IN  /\ sc.ab = sc.ba
           /\ (dab <= dcd) => (sc.ab >= sc.cd)
           /\ (dab = 0) => (sc.ab = Pt(100))
           /\ (dab >= 30 * 30) => (sc.ab = 0)

\* C8 witness: a and b are exactly 0.3 apart and score 0, c and d are closer and
\* score more
C8_Witness ==
    /\ center_scores # None
    /\ Dist2(centers[1], centers[2]) = 30 * 30
    /\ center_scores[1].ab = 0
    /\ Dist2(centers[3], centers[4]) = 5 * 5
    /\ center_scores[1].cd > 0

C9_Template ==
    FeatureSet([x |-> 50, y |-> 50], Ratios(50, 50),
               [total_length |-> 1000, stroke_count |-> 5], <<0>>)
C9_Student ==
    FeatureSet([x |-> 55, y |-> 50], Ratios(50, 50),
               [total_length |-> 900, stroke_count |-> 5], <<0>>)
C9_Case ==
    /\ Scored
    /\ weights = DefaultWeights
    /\ thresholds = DefaultThresholds
    /\ student_features = C9_Student
    /\ template_features = C9_Template

\* C9 (as claimed): on the end-to-end example score_char yields centre 83.3,
\* stroke accuracy 95, structure 100, total 94.9 and grade excellent.
C9_ExampleAsClaimed ==
    C9_Case =>
       /\ Result.dimensions =
             [center_of_mass |-> 833, stroke_accuracy |-> 950, structure |-> 1000]
       /\ Result.total_score = 949
       /\ Result.grade = "excellent"

\* C9 (amended): on the end-to-end example score_char yields centre 83.3, stroke
\* accuracy 95, structure 100, total 93.8 (0.25*83.33 + 0.40*95 + 0.35*100) and
\* grade excellent.
C9_Example ==
    C9_Case =>
       /\ Result.dimensions =
             [center_of_mass |-> 833, stroke_accuracy |-> 950, structure |-> 1000]
       /\ Result.total_score = 938
       /\ Result.grade = "excellent"

\* C9 witness: the example has been scored
C9_Witness == C9_Case /\ ~IsRaise(score_result[1]) /\ Result.total_score = 938

-----------------------------------------------------------------------------
(* Properties of _split_text_bbox *)

RECURSIVE TopWidths(_, _)
\* the top-edge vectors of the first k boxes of out, added up
TopWidths(out, k) ==
    IF k = 0 THEN <<0, 0>>
    ELSE LET rest == TopWidths(out, k - 1)
             b == out[k].bbox
         IN  <<rest[1] + b[2].x - b[1].x, rest[2] + b[2].y - b[1].y>>

\* C10: a text of N >= 2 characters is split into exactly N boxes, box i carrying
\* the i-th character and confidence 1.0 and spanning the ratios (i-1)/N .. i/N of
\* the top edge and of the bottom edge; consecutive boxes share their dividing
\* edge, and the top-edge vectors of the boxes add up to the top edge of the
\* original box.
C10_Split ==
    (split_out # None /\ Len(split_text) >= 2) =>
       LET out == split_out[1]
           n == Len(split_text)
           TL == split_bbox[1]
           TR == split_bbox[2]
           BR == split_bbox[3]
           BL == split_bbox[4]
       IN  /\ Len(out) = n
           /\ \A i \in 1..n :
                 /\ out[i].char = <<split_text[i]>>
                 /\ out[i].confidence = 100
                 /\ \A c \in 1..4 : out[i].bbox[c].den = n
                 \* x * N = N * start + (end - start) * i, likewise for y
                 /\ out[i].bbox[1].x = n * TL.x + (TR.x - TL.x) * (i - 1)
                 /\ out[i].bbox[1].y = n * TL.y + (TR.y - TL.y) * (i - 1)
                 /\ out[i].bbox[2].x = n * TL.x + (TR.x - TL.x) * i
                 /\ out[i].bbox[2].y = n * TL.y + (TR.y - TL.y) * i
                 /\ out[i].bbox[3].x = n * BL.x + (BR.x - BL.x) * i
                 /\ out[i].bbox[3].y = n * BL.y + (BR.y - BL.y) * i
                 /\ out[i].bbox[4].x = n * BL.x + (BR.x - BL.x) * (i - 1)
                 /\ out[i].bbox[4].y = n * BL.y + (BR.y - BL.y) * (i - 1)
           /\ \A i \in 1..(n - 1) :
                 /\ out[i].bbox[2] = out[i + 1].bbox[1]
                 /\ out[i].bbox[3] = out[i + 1].bbox[4]
           /\ TopWidths(out, n) = <<n * (TR.x - TL.x), n * (TR.y - TL.y)>>

\* C10 witness: a three-character text in a skewed box has been split in three
C10_Witness ==
    /\ split_out # None
    /\ Len(split_text) = 3
    /\ split_bbox[2].y # split_bbox[1].y
    /\ split_bbox[4].x # split_bbox[1].x
    /\ Len(split_out[1]) = 3

-----------------------------------------------------------------------------
(* Properties of grade *)

Graded == grade_out # None

\* grade returned the result dict of a graded image
GradeOk ==
    /\ Graded
    /\ ~IsRaise(grade_out[1])
    /\ "chars" \in DOMAIN grade_out[1].val

Out == grade_out[1].val

\* the characters detect_single_chars hands to the loop of grade
Detected == detect_single_chars(image).val

\* some template source provides the character
Resolves(c) ==
    \/ c \in template_source.prebaked
    \/ c \in template_source.rendered
    \/ c \in template_source.font \ template_source.font_raises

NonEmptyCrop(ch) == crop_size(crop_char(image, ch.bbox)) # 0

RECURSIVE ScoredSum(_, _)
\* the non-null scores among the first n entries, added up
ScoredSum(entries, n) ==
    IF n = 0 THEN 0
    ELSE ScoredSum(entries, n - 1)
           + (IF entries[n].score = None THEN 0 ELSE entries[n].score[1])

ScoredCount(entries) == Cardinality({i \in 1..Len(entries) : entries[i].score # None})

\* what grade keeps of one detected character: a null entry with the marker when
\* no template resolves, a scored entry otherwise
EntryFor(entry, ch) ==
    /\ entry.char = ch.char
    /\ entry.bbox = ch.bbox
    /\ ~Resolves(ch.char) =>
          /\ entry.score = None
          /\ entry.feedback = "no_template"
          /\ DOMAIN entry = {"char", "bbox", "score", "feedback"}
    /\ Resolves(ch.char) =>
          /\ entry.score # None
          /\ DOMAIN entry = {"char", "bbox", "score", "grade", "dimensions",
                             "feedback", "suggestions"}

CachesUntouched ==
    /\ templates_cache = EmptyFn
    /\ template_image_cache = EmptyFn
    /\ template_features_cache = EmptyFn

\* C2: on an image that cannot be decoded grade returns a dict holding only the
\* error 'cannot read image', on one where detection yields no character a dict
\* holding only the different error 'no text detected'; neither has chars,
\* char_count or overall_score, and no character has been looked up or scored.
C2_TerminalErrors ==
    Graded =>
       /\ ~image.decodable =>
             /\ grade_out[1] = Return([error |-> "cannot_read_image"])
             /\ CachesUntouched
       /\ (image.decodable /\ ~IsRaise(detect_single_chars(image)) /\ Len(Detected) = 0)
             => /\ grade_out[1] = Return([error |-> "no_text_detected"])
                /\ CachesUntouched

\* C2 witness: the oracle found a box but the filters kept no character, and
\* grade returned the 'no text detected' error
C2_Witness ==
    /\ Graded
    /\ image.decodable
    /\ ~IsRaise(detect_single_chars(image))
    /\ Len(image.detections) > 0
    /\ Len(Detected) = 0
    /\ grade_out[1] = Return([error |-> "no_text_detected"])

\* C3 (as claimed): when the oracle raises during grade (an exception leaves
\* detect_and_recognize), grade does not raise and returns the terminal
\* 'no text detected' error result.
C3_OracleExceptionCaught ==
    (Graded /\ image.decodable /\ IsRaise(detect_and_recognize(image))) =>
       /\ ~IsRaise(grade_out[1])
       /\ grade_out[1] = Return([error |-> "no_text_detected"])

-----------------------------------------------------------------------------
(* _cluster_lines on sorted lists of distinct coordinates *)

\* most coordinates in a list
MaxLines == 3

\* Hough line coordinates drawn: gaps of 20, 21 and around them
LineCoords == {0, 20, 21, 30, 31, 60, 100}

\* sorted(set(...)): strictly increasing lists
SortedLines ==
    {q \in SeqsUpTo(LineCoords, MaxLines) :
        \A i \in 1..(Len(q) - 1) : q[i] < q[i + 1]}

InitCluster ==
    /\ lines \in SortedLines
    /\ clustered = None
    /\ ScoreIdle /\ CenterIdle /\ SplitIdle /\ GradeIdle
    /\ GridIdle /\ LoadIdle /\ SkeletonIdle /\ HoughIdle /\ WatcherIdle
    /\ detect_out = None
    /\ feedback_out = None

\* detector._cluster_lines(lines, threshold=20)
ClusterLines ==
    /\ clustered = None
    /\ clustered' = Some(cluster_lines_upto(lines, ClusterThreshold, Len(lines)))
    /\ UNCHANGED lines
    /\ UNCHANGED <<scoreVars, centerVars, splitVars, gradeVars>>
    /\ UNCHANGED <<gridVars, detect_out, loadVars, feedback_out, skeletonVars>>
    /\ UNCHANGED <<houghVars, watcherVars>>

NextCluster == ClusterLines

SpecCluster == InitCluster /\ [][NextCluster]_vars

Clustered == clustered # None
Member == clustered[1].member
Adjacent == 1..(Len(lines) - 1)

\* C11 as claimed: for every sorted list of distinct coordinates, two adjacent
\* coordinates end up in the same cluster exactly when they are within 20px of
\* each other.
C11_AdjacentMergedIffWithin20 ==
    Clustered =>
       \A i \in Adjacent :
          (Member[i] = Member[i + 1]) <=> (lines[i + 1] - lines[i] <= 20)

\* C11: two adjacent coordinates 21px or more apart always end in distinct
\* clusters; two adjacent coordinates within 20px end in the same cluster when
\* the earlier one opened its cluster (so always in a list of two), but a
\* coordinate is compared with the running average of the cluster, not with its
\* neighbour: [0, 20, 31] gives [10, 31], splitting 20 from 31, and [0, 20, 30]
\* gives [20], merging coordinates 30px apart.
C11_ClusterLines ==
    Clustered =>
       /\ \A i \in Adjacent :
             (lines[i + 1] - lines[i] >= 21) => Member[i] # Member[i + 1]
       /\ \A i \in Adjacent :
             (/\ lines[i + 1] - lines[i] <= 20
              /\ (i = 1 \/ Member[i - 1] # Member[i]))
                => Member[i] = Member[i + 1]
       /\ (lines = <<0, 20, 31>>) => (clustered[1].clustered = <<10, 31>>)
       /\ (lines = <<0, 20, 30>>) => (clustered[1].clustered = <<20>>)

C11_Witness ==
    /\ Clustered
    /\ lines = <<0, 20, 31>>
    /\ Member = <<1, 1, 2>>


-----------------------------------------------------------------------------
(* load_template calls on one scorer, the template folder changing in between *)

\* template folders drawn: a character in several sources at once, in one, in
\* none, and behind a renderer that raises
LoaderSources ==
    TemplateSources \cup
    {[prebaked |-> {<<"a">>}, rendered |-> {<<"a">>, <<"b">>},
      font |-> {<<"a">>, <<"b">>}, font_raises |-> {}],
     [prebaked |-> {}, rendered |-> {<<"b">>}, font |-> {<<"a">>, <<"b">>},
      font_raises |-> {<<"b">>}]}

\* the characters asked for
LoaderChars == {<<"a">>, <<"b">>}

\* what no load_template call touches
outsideLoad ==
    <<image, template_image_cache, template_features_cache, grade_out,
      scoreVars, centerVars, splitVars, lineVars, gridVars, detect_out,
      feedback_out, skeletonVars, houghVars, watcherVars>>

InitLoad ==
    /\ template_source \in LoaderSources
    /\ templates_cache = EmptyFn
    /\ load_out = None
    /\ callers = <<>>
    /\ image = [decodable |-> FALSE]
    /\ template_image_cache = EmptyFn
    /\ template_features_cache = EmptyFn
    /\ grade_out = None
    /\ ScoreIdle /\ CenterIdle /\ SplitIdle
    /\ LineIdle /\ GridIdle /\ SkeletonIdle /\ HoughIdle /\ WatcherIdle
    /\ detect_out = None
    /\ feedback_out = None

\* the characters whose latest load_template call returned None
NotFoundSoFar == IF load_out = None THEN {} ELSE load_out[1].not_found

\* scorer.load_template(char); load_out keeps the call: its argument, whether the
\* key was cached, the folder as it was, what was returned and what was
\* consulted, whether the latest call for the character had returned None
\* (retried), and the characters whose latest call returned None (not_found)
LoadTemplate ==
    \E char \in LoaderChars :
       \E loaded \in {load_template(templates_cache, template_source, char)} :
          /\ templates_cache' = loaded.templates_cache
          /\ load_out' = Some([char |-> char,
                               hit |-> <<char, TargetSize>> \in DOMAIN templates_cache,
                               source |-> template_source,
                               template |-> loaded.template,
                               consulted |-> loaded.consulted,
                               retried |-> char \in NotFoundSoFar,
                               not_found |->
                                  IF loaded.template = None
                                  THEN NotFoundSoFar \cup {char}
                                  ELSE NotFoundSoFar \ {char}])
          /\ UNCHANGED <<template_source, callers>>
          /\ UNCHANGED outsideLoad

\* files are added to or removed from the templates folder between two calls
FolderChanges ==
    /\ template_source' \in LoaderSources \ {template_source}
    /\ UNCHANGED <<templates_cache, load_out, callers>>
    /\ UNCHANGED outsideLoad

NextLoad ==
    \/ LoadTemplate
    \/ FolderChanges

SpecLoad == InitLoad /\ [][NextLoad]_vars

Loaded == load_out # None
Load == load_out[1]

\* the source holds a template for the character that load_template can get
SourceHolds(source, char, origin) ==
    CASE origin = "prebaked" -> char \in source.prebaked
      [] origin = "rendered" -> char \in source.rendered
      [] origin = "font" -> char \in source.font /\ char \notin source.font_raises

\* C12: across any sequence of load_template calls, a stored (char, size) key is
\* never removed and its value never changes, and a later load_template for the
\* key returns the stored value and consults no template source.
C12_CacheAppendOnly ==
    [][/\ \A key \in DOMAIN templates_cache :
             /\ key \in DOMAIN templates_cache'
             /\ templates_cache'[key] = templates_cache[key]
       /\ \A char \in LoaderChars :
             (/\ <<char, TargetSize>> \in DOMAIN templates_cache
              /\ load_out' # load_out
              /\ load_out'[1].char = char)
                => /\ load_out'[1].template =
                         Some(templates_cache[<<char, TargetSize>>])
                   /\ load_out'[1].consulted = <<>>]_vars

\* a cached key was asked for again after the folder stopped holding the file
\* the template came from
C12_Witness ==
    /\ Loaded
    /\ Load.hit
    /\ Load.consulted = <<>>
    /\ ~SourceHolds(Load.source, Load.char, Load.template[1].from)

\* C13: on a cache miss load_template goes to the prebaked file, the rendered
\* subfolder and the font renderer in that order; the template is from the first
\* that resolves, a source is consulted only when all before it failed, and when
\* none resolves, a raising renderer included, the call returns None.
C13_ResolutionOrder ==
    (Loaded /\ ~Load.hit) =>
       LET order == <<"prebaked", "rendered", "font">>
           n == Len(Load.consulted)
       IN  /\ n >= 1
           /\ Load.consulted = SubSeq(order, 1, n)
           /\ \A k \in 1..(n - 1) : ~SourceHolds(Load.source, Load.char, order[k])
           /\ IF SourceHolds(Load.source, Load.char, order[n])
              THEN Load.template = Some([glyph |-> Load.char, from |-> order[n]])
              ELSE n = 3 /\ Load.template = None
           /\ (Load.template = None) <=>
                 (\A k \in 1..3 : ~SourceHolds(Load.source, Load.char, order[k]))

\* the prebaked file wins over the rendered one
C13_Witness ==
    /\ Loaded
    /\ ~Load.hit
    /\ Load.char \in Load.source.prebaked \cap Load.source.rendered
    /\ Load.template[1].from = "prebaked"

\* the renderer is reached and raises: the call returns None
C13_RendererRaises ==
    /\ Loaded
    /\ ~Load.hit
    /\ Load.char \in Load.source.font_raises
    /\ Load.consulted = <<"prebaked", "rendered", "font">>
    /\ Load.template = None


-----------------------------------------------------------------------------
(* load_template called by concurrent callers for the same key *)

\* callers running load_template at once
MaxCallers == 2

CallerIds == 1..MaxCallers

\* a cache holding nothing, or one key other than the one asked for
CachesBefore(char) ==
    {EmptyFn} \cup
    {(<<other, TargetSize>> :> [glyph |-> other, from |-> "prebaked"]) :
        other \in LoaderChars \ {char}}

\* self.templates_cache[cache_key] = template replacing the dict by a new one
store_template_alone(cache, cache_key, template) ==
    (cache_key :> template)

\* self.templates_cache[cache_key] = template
store_template(cache, cache_key, template) ==
    [k \in DOMAIN cache \cup {cache_key} |->
        IF k = cache_key THEN template ELSE cache[k]]

\* every caller is about to test the cache; load_out holds the same call made
\* alone on the same cache, for reference
InitConcurrent ==
    /\ template_source \in LoaderSources
    /\ \E char \in LoaderChars :
          /\ templates_cache \in CachesBefore(char)
          /\ callers = [c \in CallerIds |->
                           [pc |-> "test", char |-> char, missed |-> FALSE,
                            template |-> None, returned |-> None]]
          /\ \E alone \in {load_template(templates_cache, template_source, char)} :
                load_out = Some([char |-> char, template |-> alone.template,
                                 templates_cache |-> alone.templates_cache])
    /\ image = [decodable |-> FALSE]
    /\ template_image_cache = EmptyFn
    /\ template_features_cache = EmptyFn
    /\ grade_out = None
    /\ ScoreIdle /\ CenterIdle /\ SplitIdle
    /\ LineIdle /\ GridIdle /\ SkeletonIdle /\ HoughIdle /\ WatcherIdle
    /\ detect_out = None
    /\ feedback_out = None

\* if cache_key in self.templates_cache: return self.templates_cache[cache_key]
TestCache(c) ==
    /\ callers[c].pc = "test"
    /\ LET cache_key == <<callers[c].char, TargetSize>>
       IN  callers' =
              [callers EXCEPT ![c] =
                  IF cache_key \in DOMAIN templates_cache
                  THEN [@ EXCEPT !.pc = "done",
                                 !.returned = Some(Some(templates_cache[cache_key]))]
                  ELSE [@ EXCEPT !.pc = "resolve", !.missed = TRUE]]
    /\ UNCHANGED <<templates_cache, template_source, load_out>>
    /\ UNCHANGED outsideLoad

\* methods 1 to 3
ResolveTemplate(c) ==
    /\ callers[c].pc = "resolve"
    /\ callers' =
          [callers EXCEPT ![c] =
              [@ EXCEPT !.pc = "store",
                        !.template =
                            resolve_template(template_source,
                                             callers[c].char).template]]
    /\ UNCHANGED <<templates_cache, template_source, load_out>>
    /\ UNCHANGED outsideLoad

\* if template is not None: self.templates_cache[cache_key] = template
StoreTemplate(c) ==
    /\ callers[c].pc = "store"
    /\ templates_cache' =
          IF callers[c].template # None
          THEN store_template(templates_cache, <<callers[c].char, TargetSize>>,
                              callers[c].template[1])
          ELSE templates_cache
    /\ callers' = [callers EXCEPT ![c] = [@ EXCEPT !.pc = "return"]]
    /\ UNCHANGED <<template_source, load_out>>
    /\ UNCHANGED outsideLoad

\* return template
ReturnTemplate(c) ==
    /\ callers[c].pc = "return"
    /\ callers' =
          [callers EXCEPT ![c] =
              [@ EXCEPT !.pc = "done",
                        !.returned = Some(callers[c].template)]]
    /\ UNCHANGED <<templates_cache, template_source, load_out>>
    /\ UNCHANGED outsideLoad

NextConcurrent ==
    \/ \E c \in CallerIds : TestCache(c)
    \/ \E c \in CallerIds : ResolveTemplate(c)
    \/ \E c \in CallerIds : StoreTemplate(c)
    \/ \E c \in CallerIds : ReturnTemplate(c)

SpecConcurrent == InitConcurrent /\ [][NextConcurrent]_vars

AllReturned == \A c \in CallerIds : callers[c].pc = "done"

\* C14: when callers make the first load_template for a key at once, every
\* interleaving ends with all of them holding the same template value, the one a
\* lone call returns, and with the cache equal to the cache a lone call leaves:
\* the key stored once with that value (not stored when no source resolves), the
\* other keys as they were.
C14_ConcurrentFirstLoad ==
    AllReturned =>
       /\ \A c \in CallerIds : callers[c].returned = Some(load_out[1].template)
       /\ templates_cache = load_out[1].templates_cache

\* both callers missed the cache, so neither had stored when the other tested,
\* and both stored the template they resolved
C14_Witness ==
    /\ AllReturned
    /\ \A c \in CallerIds : callers[c].missed /\ callers[c].template # None
    /\ Cardinality(DOMAIN templates_cache) = 2


-----------------------------------------------------------------------------
(* detect_single_chars on one decoded image *)

\* a box in which the oracle recognized no text
EmptyTextBox ==
    [text |-> <<>>, bbox |-> Box(50, 20, 30, 30), confidence |-> 10,
     ink |-> InkSamples.blank, in_writing_cell |-> TRUE, handwritten |-> TRUE]

\* decodable images, with boxes of 0, 1 and 2 recognized characters
DetectImages ==
    {[decodable |-> TRUE, width |-> 100, height |-> 100, oracle |-> o,
      detections |-> d, grid |-> g] :
        o \in OracleSamples,
        d \in SeqsUpTo(DetSamples \cup {EmptyTextBox}, MaxBoxes),
        g \in BOOLEAN}

InitDetect ==
    /\ image \in DetectImages
    /\ detect_out = None
    /\ template_source = [prebaked |-> {}, rendered |-> {}, font |-> {}, font_raises |-> {}]
    /\ templates_cache = EmptyFn
    /\ template_image_cache = EmptyFn
    /\ template_features_cache = EmptyFn
    /\ grade_out = None
    /\ ScoreIdle /\ CenterIdle /\ SplitIdle
    /\ LineIdle /\ GridIdle /\ LoadIdle /\ SkeletonIdle /\ HoughIdle /\ WatcherIdle
    /\ feedback_out = None

\* detector.detect_single_chars(image)
DetectSingleChars ==
    /\ detect_out = None
    /\ detect_out' = Some(detect_single_chars(image))
    /\ UNCHANGED <<scoreVars, centerVars, splitVars, gradeVars>>
    /\ UNCHANGED <<lineVars, gridVars, loadVars, feedback_out, skeletonVars>>
    /\ UNCHANGED <<houghVars, watcherVars>>

NextDetect == DetectSingleChars

SpecDetect == InitDetect /\ [][NextDetect]_vars

\* detect_single_chars returned a list
CharsReturned == detect_out # None /\ ~IsRaise(detect_out[1])

\* the split characters the two filters are given
SplitChars == single_chars_from(detect_and_recognize(image).val, 1)

\* an entry that went through _filter_handwritten_chars
FromFallback(entry) == "handwritten_confidence" \in DOMAIN entry

\* C15 as claimed: whenever a valid grid is detected the returned characters are
\* exactly the grid filter's output, and no returned character comes from the
\* handwriting fallback.
C15_FallbackOnlyWithoutGrid ==
    (CharsReturned /\ image.grid) =>
       /\ detect_out[1].val = filter_by_grid_position(image, SplitChars)
       /\ \A k \in 1..Len(detect_out[1].val) : ~FromFallback(detect_out[1].val[k])


-----------------------------------------------------------------------------
(* _filter_by_grid_position on one image, and the cells it looks up *)

\* most characters passed to the grid filter
MaxGridBoxes == 2

\* the image height: min_table_top = 0.15 * 200 = 30
GridImageHeight == 200

\* what _detect_grid_structure returns: None, or sorted clustered lines, at least
\* two of each; the horizontal line at 20 is a title row above min_table_top,
\* the one at 30 lies on it, and the lines at 10 and 25 are all above it
GridInfos ==
    {None} \cup
    {Some([vertical_lines |-> v, horizontal_lines |-> h]) :
        v \in {<<0, 100>>, <<0, 100, 200>>},
        h \in {<<20, 60, 160>>, <<40, 140>>, <<20, 30, 160>>, <<10, 25>>}}

\* character boxes by centroid: (45, 100) on a right threshold, (46, 100) and
\* (45.25, 100) just past it, (100, 100) on a grid line, (150, 100), (60, 45)
\* in the title row of one grid, (60, 20) and (60, 160)
GridBoxSamples ==
    {Box(30, 85, 30, 30), Box(31, 85, 30, 30),
     <<Point(30, 85, 1), Point(60, 85, 1), Point(61, 115, 1), Point(30, 115, 1)>>,
     Box(85, 85, 30, 30), Box(135, 85, 30, 30), Box(45, 30, 30, 30),
     Box(45, 5, 30, 30), Box(45, 145, 30, 30)}

GridChars ==
    {[char |-> <<"a">>, bbox |-> b, confidence |-> 95] : b \in GridBoxSamples}

InitGrid ==
    /\ grid_image \in {[height |-> GridImageHeight, grid_info |-> g] : g \in GridInfos}
    /\ grid_boxes \in SeqsUpTo(GridChars, MaxGridBoxes)
    /\ grid_out = None
    /\ ScoreIdle /\ CenterIdle /\ SplitIdle /\ GradeIdle
    /\ LineIdle /\ LoadIdle /\ SkeletonIdle /\ HoughIdle /\ WatcherIdle
    /\ detect_out = None
    /\ feedback_out = None

\* detector._filter_by_grid_position(image, chars); cells keeps, for each input
\* character, the cell the call looked up for it, and bounds the table
\* boundaries it worked with
FilterByGridPosition ==
    /\ grid_out = None
    /\ grid_out' =
          Some([kept |-> filter_by_grid_lines(grid_image.height,
                                              grid_image.grid_info, grid_boxes),
                bounds |-> IF grid_image.grid_info = None THEN None
                           ELSE Some(table_bounds(
                                    grid_image.height,
                                    grid_image.grid_info[1].vertical_lines,
                                    grid_image.grid_info[1].horizontal_lines)),
                cells |-> IF grid_image.grid_info = None THEN <<>>
                          ELSE [k \in 1..Len(grid_boxes) |->
                                   cell_looked_up(grid_image.height,
                                                  grid_image.grid_info[1],
                                                  grid_boxes[k])]])
    /\ UNCHANGED <<grid_image, grid_boxes>>
    /\ UNCHANGED <<scoreVars, centerVars, splitVars, gradeVars>>
    /\ UNCHANGED <<lineVars, detect_out, loadVars, feedback_out, skeletonVars>>
    /\ UNCHANGED <<houghVars, watcherVars>>

NextGrid == FilterByGridPosition

SpecGrid == InitGrid /\ [][NextGrid]_vars

\* the filter ran on a detected grid
GridFiltered == grid_out # None /\ grid_image.grid_info # None
GridInfo == grid_image.grid_info[1]
Kept == grid_out[1].kept
Cells == grid_out[1].cells
Center(k) == char_center(grid_boxes[k].bbox)

\* the centroid is inside the table bounds
InsideTable(k) ==
    in_table(table_bounds(grid_image.height, GridInfo.vertical_lines,
                          GridInfo.horizontal_lines), Center(k))

\* centroid-x > cell_left + 0.45 * cell_width for the cell looked up, in
\* hundredths of a quarter pixel
RightOfThreshold(k) ==
    LET cell == Cells[k][2][1]
    IN  100 * Center(k).x >
           Center(k).den * (55 * cell.cell_left + 45 * cell.cell_right)

\* the input characters that meet both conditions, in input order
RECURSIVE MeetingBoth(_)
MeetingBoth(k) ==
    IF k = 0 THEN <<>>
    ELSE MeetingBoth(k - 1)
         \o (IF InsideTable(k) /\ Cells[k][2] # None /\ RightOfThreshold(k)
             THEN <<grid_boxes[k].bbox>> ELSE <<>>)

IndexOf(grid_lines, line) == CHOOSE i \in 1..Len(grid_lines) : grid_lines[i] = line

\* C20 as claimed: for a centroid inside the table bounds _find_cell_for_point
\* returns a cell bounded on each axis by two consecutive, distinct grid lines
\* that bracket the point, also when the centroid lies exactly on a grid line.
C20_CellBetweenConsecutiveLines ==
    GridFiltered =>
       \A k \in 1..Len(grid_boxes) :
          InsideTable(k) =>
             /\ Cells[k][2] # None
             /\ LET cell == Cells[k][2][1]
                    c == Center(k)
                IN  /\ cell.cell_left * c.den <= c.x /\ c.x <= cell.cell_right * c.den
                    /\ cell.cell_top * c.den <= c.y /\ c.y <= cell.cell_bottom * c.den
                    /\ cell.cell_left < cell.cell_right
                    /\ cell.cell_top < cell.cell_bottom
                    /\ IndexOf(GridInfo.vertical_lines, cell.cell_right)
                          = IndexOf(GridInfo.vertical_lines, cell.cell_left) + 1
                    /\ IndexOf(GridInfo.horizontal_lines, cell.cell_bottom)
                          = IndexOf(GridInfo.horizontal_lines, cell.cell_top) + 1


-----------------------------------------------------------------------------
(* generate_feedback on the result of score_char *)

\* student FeatureSets for feedback: centres on, at and beyond the 0.05 dead
\* band of _analyze_center, and a stroke dict close in length to the templates'
\* but with another stroke count
FeedbackStudents ==
    {FeatureSet(c, r, s, a) :
        c \in CenterSamples \cup {[x |-> 70, y |-> 40]},
        r \in RatioSamples,
        s \in StrokeSamples \cup {[total_length |-> 950, stroke_count |-> 4]},
        a \in AngleLists}

InitFeedback ==
    /\ weights = DefaultWeights
    /\ thresholds = DefaultThresholds
    /\ student_features \in FeedbackStudents
    /\ template_features \in TemplateFeatureSets
    /\ score_result = None
    /\ self_stroke = None
    /\ CenterIdle /\ SplitIdle /\ GradeIdle /\ ComponentIdle

\* feedback_gen.generate_feedback(score_result)
GenerateFeedback ==
    /\ score_result # None
    /\ ~IsRaise(score_result[1])
    /\ feedback_out = None
    /\ feedback_out' = Some(generate_feedback(score_result[1].val))
    /\ UNCHANGED <<scoreVars, centerVars, splitVars, gradeVars>>
    /\ UNCHANGED <<lineVars, gridVars, detect_out, loadVars, skeletonVars>>
    /\ UNCHANGED <<houghVars, watcherVars>>

NextFeedback ==
    \/ ScoreChar
    \/ GenerateFeedback

SpecFeedback == InitFeedback /\ [][NextFeedback]_vars

FeedbackGiven == feedback_out # None
Feedback == feedback_out[1]

\* per dimension of the ScoreResult: its 'good' message, all its messages, and
\* the suggestions its analysis can add
FeedbackDimensions ==
    {[name |-> "center_of_mass", good |-> "center_good",
      keys |-> {"center_good", "center_left", "center_right", "center_up",
                "center_down"},
      kinds |-> {"move"}],
     [name |-> "structure", good |-> "ratio_good",
      keys |-> {"ratio_good", "upper_heavy", "lower_heavy", "left_heavy",
                "right_heavy"},
      kinds |-> {"balance"}],
     [name |-> "stroke_accuracy", good |-> "stroke_good",
      keys |-> {"stroke_good", "stroke_short", "stroke_long"},
      kinds |-> {"stretch", "stroke_count"}]}

\* the feedback items and the suggestions of one dimension, in order
ItemsOf(dim) ==
    LET Mine(item) == item[1] \in dim.keys
    IN  SelectSeq(Feedback.feedback_items, Mine)
SuggestionsOf(dim) ==
    LET Mine(suggestion) == suggestion[1] \in dim.kinds
    IN  SelectSeq(Feedback.suggestions, Mine)

\* C17: in generate_feedback a dimension whose sub-score in the ScoreResult is
\* >= 85 contributes exactly one feedback item, its 'good' message, and no
\* suggestion; its directional or length diagnostics and its suggestions appear
\* only when the sub-score is below 85, and then the 'good' message does not.
C17_GoodItemAt85 ==
    FeedbackGiven =>
       \A dim \in FeedbackDimensions :
          LET sub_score == score_result[1].val.dimensions[dim.name]
          IN  IF sub_score >= 850
              THEN /\ ItemsOf(dim) = <<(<<dim.good>>)>>
                   /\ SuggestionsOf(dim) = <<>>
              ELSE \A k \in 1..Len(ItemsOf(dim)) : ItemsOf(dim)[k] # <<dim.good>>

\* strokes scored 85 or more while the stroke counts differ, next to a centre
\* scored below 85 with its diagnostics
C17_Witness ==
    /\ FeedbackGiven
    /\ score_result[1].val.dimensions.stroke_accuracy >= 850
    /\ student_features.stroke_features.stroke_count
          # template_features.stroke_features.stroke_count
    /\ template_features.stroke_features.stroke_count > 0
    /\ score_result[1].val.dimensions.center_of_mass < 850
    /\ Len(ItemsOf(CHOOSE dim \in FeedbackDimensions : dim.name = "center_of_mass")) = 2


-----------------------------------------------------------------------------
(* compute_stroke_features on small skeleton images *)

\* side of the square skeleton images drawn
SkeletonSide == 3

Skeletons ==
    [1..SkeletonSide -> [1..SkeletonSide -> {0, 255}]]

InitSkeleton ==
    /\ skeleton \in Skeletons
    /\ stroke_out = None
    /\ ScoreIdle /\ CenterIdle /\ SplitIdle /\ GradeIdle
    /\ LineIdle /\ GridIdle /\ LoadIdle /\ HoughIdle /\ WatcherIdle
    /\ detect_out = None
    /\ feedback_out = None

\* extractor.compute_stroke_features(skeleton)
ComputeStrokeFeatures ==
    /\ stroke_out = None
    /\ stroke_out' = Some(compute_stroke_features(skeleton))
    /\ UNCHANGED skeleton
    /\ UNCHANGED <<scoreVars, centerVars, splitVars, gradeVars>>
    /\ UNCHANGED <<lineVars, gridVars, detect_out, loadVars, feedback_out>>
    /\ UNCHANGED <<houghVars, watcherVars>>

NextSkeleton == ComputeStrokeFeatures

SpecSkeleton == InitSkeleton /\ [][NextSkeleton]_vars

StrokesComputed == stroke_out # None
Strokes == stroke_out[1]

InSeq(q, e) == \E k \in 1..Len(q) : q[k] = e

\* how many of the 8 neighbours of a position that lie inside the image are
\* skeleton pixels
NeighboursInside(r, c) ==
    Cardinality({o \in NeighbourOffsets :
                    /\ r + o[1] \in 1..SkeletonSide
                    /\ c + o[2] \in 1..SkeletonSide
                    /\ skeleton[r + o[1]][c + o[2]] > 0})

\* C18 as claimed: for every skeleton, one with no pixels or no endpoints
\* included, stroke_count = max(1, (#endpoints + 1) // 2), so it is at least 1.
C18_StrokeCountAtLeastOne ==
    StrokesComputed =>
       /\ Strokes.stroke_count = Max(1, (Len(Strokes.endpoints) + 1) \div 2)
       /\ Strokes.stroke_count >= 1

\* C19 as claimed: a skeleton pixel is reported as an endpoint exactly when
\* exactly 1 of its 8 neighbours inside the image is a skeleton pixel, and as a
\* junction exactly when 3 or more are, pixels on the image border included.
C19_KeyPointsByNeighboursInside ==
    (StrokesComputed /\ Strokes.total_length > 0) =>
       \A r \in 1..SkeletonSide, c \in 1..SkeletonSide :
          skeleton[r][c] > 0 =>
             /\ InSeq(Strokes.endpoints, <<r, c>>) <=> NeighboursInside(r, c) = 1
             /\ InSeq(Strokes.junctions, <<r, c>>) <=> NeighboursInside(r, c) >= 3


-----------------------------------------------------------------------------
(* the table top of _filter_by_grid_position *)

\* the horizontal lines strictly past 15% of the image height
LinesPastTitle ==
    {GridInfo.horizontal_lines[i] : i \in 1..Len(GridInfo.horizontal_lines)}
       \cap {hl \in 0..GridImageHeight : 100 * hl > 15 * grid_image.height}

\* the topmost horizontal line lies above 15% of the image height
TitleRowAbove == 100 * GridInfo.horizontal_lines[1] < 15 * grid_image.height

\* C21: when the topmost horizontal line lies above 15% of the image height, the
\* table top is the first horizontal line strictly past that threshold, and
\* every kept box has its centroid-y at or below it; when no horizontal line lies
\* past the threshold, or the topmost is not above it, the table top is the
\* topmost line.
C21_TableTop ==
    GridFiltered =>
       /\ grid_out[1].bounds[1].table_top =
             IF TitleRowAbove /\ LinesPastTitle # {}
             THEN SetMin(LinesPastTitle) ELSE GridInfo.horizontal_lines[1]
       /\ \A k \in 1..Len(Kept) :
             char_center(Kept[k].bbox).y
                >= grid_out[1].bounds[1].table_top * char_center(Kept[k].bbox).den

\* lines at 20, 30 and 160 in an image 200 high: the top moves past the line on
\* the threshold to 160, and a box is kept there
C21_Witness ==
    /\ GridFiltered
    /\ GridInfo.horizontal_lines = <<20, 30, 160>>
    /\ grid_out[1].bounds[1].table_top = 160
    /\ Len(Kept) > 0

\* no line past the threshold: the top stays at the topmost line, and a box
\* above the threshold is kept
C21_TopStays ==
    /\ GridFiltered
    /\ TitleRowAbove
    /\ LinesPastTitle = {}
    /\ grid_out[1].bounds[1].table_top = GridInfo.horizontal_lines[1]
    /\ Len(Kept) > 0


-----------------------------------------------------------------------------
(* the coordinate _cluster_lines reports for a cluster *)

\* the input positions merged into cluster c
MembersOf(c) == {i \in 1..Len(lines) : Member[i] = c}

RECURSIVE SumOfLines(_)
SumOfLines(positions) ==
    IF positions = {} THEN 0
    ELSE LET i == CHOOSE p \in positions : TRUE
         IN  lines[i] + SumOfLines(positions \ {i})

\* C22 as claimed: the coordinate reported for a cluster is the average of all
\* input coordinates merged into it (to within the rounding of one integer
\* division), for clusters of any size.
C22_ClusterIsAverageOfMembers ==
    Clustered =>
       \A c \in 1..Len(clustered[1].clustered) :
          LET n == Cardinality(MembersOf(c))
              reported == clustered[1].clustered[c]
          IN  /\ n * reported <= SumOfLines(MembersOf(c))
              /\ SumOfLines(MembersOf(c)) < n * (reported + 1)

\* what the code reports: the average for clusters of one or two coordinates
C22_AverageUpToTwoMembers ==
    Clustered =>
       \A c \in 1..Len(clustered[1].clustered) :
          LET n == Cardinality(MembersOf(c))
              reported == clustered[1].clustered[c]
          IN  n <= 2 =>
                 /\ n * reported <= SumOfLines(MembersOf(c))
                 /\ SumOfLines(MembersOf(c)) < n * (reported + 1)


-----------------------------------------------------------------------------
(* TextDetector._detect_grid_structure on the segments cv2.HoughLinesP found *)

\* a segment x1, y1, x2, y2 of HoughLinesP
Segment(x1, y1, x2, y2) == [x1 |-> x1, y1 |-> y1, x2 |-> x2, y2 |-> y2]

\* angle = 90 when x2 - x1 == 0, else abs(degrees(arctan(dy / dx))); angle > 80
\* is |dy / dx| > tan(80 deg) = 5.67128..., angle < 10 is |dy / dx| <
\* tan(10 deg) = 0.17632...
segment_class(line) ==
    LET dx == line.x2 - line.x1
        dy == line.y2 - line.y1
    IN  IF dx = 0 THEN "vertical"
        ELSE IF 100000 * Abs(dy) > 567128 * Abs(dx) THEN "vertical"
        ELSE IF 100000 * Abs(dy) < 17633 * Abs(dx) THEN "horizontal"
        ELSE "neither"

\* int((a + b) / 2) for pixel coordinates
int_half(a, b) == (a + b) \div 2

\* set(vertical_lines) or set(horizontal_lines) after the loop over the segments
line_coordinates(segments, class) ==
    {IF class = "vertical"
     THEN int_half(segments[i].x1, segments[i].x2)
     ELSE int_half(segments[i].y1, segments[i].y2) :
        i \in {j \in 1..Len(segments) : segment_class(segments[j]) = class}}

\* sorted(...) of a set of integers
RECURSIVE sorted_set(_)
sorted_set(S) ==
    IF S = {} THEN <<>>
    ELSE <<SetMin(S)>> \o sorted_set(S \ {SetMin(S)})

\* x put in its place in the sorted list q, after the entries equal to it
RECURSIVE insert_sorted(_, _)
insert_sorted(x, q) ==
    IF q = <<>> THEN <<x>>
    ELSE IF x < Head(q) THEN <<x>> \o q
    ELSE <<Head(q)>> \o insert_sorted(x, Tail(q))

\* sorted(...) of a list of integers: every entry kept
RECURSIVE sorted_list(_)
sorted_list(q) ==
    IF q = <<>> THEN <<>>
    ELSE insert_sorted(q[Len(q)], sorted_list(SubSeq(q, 1, Len(q) - 1)))

\* a grid with fewer than two lines on one axis only
too_few_lines_on_both(vertical_lines, horizontal_lines) ==
    Len(vertical_lines) < 2 /\ Len(horizontal_lines) < 2

\* len(vertical_lines) < 2 or len(horizontal_lines) < 2
too_few_lines(vertical_lines, horizontal_lines) ==
    Len(vertical_lines) < 2 \/ Len(horizontal_lines) < 2

\* _detect_grid_structure from the HoughLinesP result on: the value returned,
\* with the clustered lines of each axis
detect_grid_structure(found_lines) ==
    IF found_lines = None
    THEN [grid |-> None, lines_seen |-> FALSE,
          vertical_lines |-> <<>>, horizontal_lines |-> <<>>]
    ELSE LET vertical_lines ==
                cluster_lines(sorted_set(line_coordinates(found_lines[1], "vertical")),
                              ClusterThreshold)
             horizontal_lines ==
                cluster_lines(sorted_set(line_coordinates(found_lines[1], "horizontal")),
                              ClusterThreshold)
         IN  [grid |-> IF too_few_lines(vertical_lines, horizontal_lines) THEN None
                       ELSE Some([vertical_lines |-> sorted_list(vertical_lines),
                                  horizontal_lines |-> sorted_list(horizontal_lines)]),
              lines_seen |-> TRUE,
              vertical_lines |-> vertical_lines,
              horizontal_lines |-> horizontal_lines]

\* most segments HoughLinesP returns
MaxSegments == 4

\* segments at least minLineLength = 100 long in an image 200 by 200: verticals
\* at x = 0, 15 and 100, one leaning from 98 to 102, horizontals at y = 20 and
\* 120, one sloping from 118 to 122, and a diagonal
SegmentSamples ==
    {Segment(0, 0, 0, 200), Segment(15, 200, 15, 0), Segment(100, 0, 100, 200),
     Segment(98, 0, 102, 200), Segment(0, 20, 200, 20), Segment(200, 120, 0, 120),
     Segment(0, 118, 200, 122), Segment(0, 0, 150, 150)}

\* what cv2.HoughLinesP returns: None or an array of segments
HoughResults ==
    {None} \cup {Some(q) : q \in SeqsUpTo(SegmentSamples, MaxSegments) \ {<<>>}}

InitHough ==
    /\ hough_lines \in HoughResults
    /\ grid_found = None
    /\ ScoreIdle /\ CenterIdle /\ SplitIdle /\ GradeIdle
    /\ LineIdle /\ GridIdle /\ LoadIdle /\ SkeletonIdle /\ WatcherIdle
    /\ detect_out = None
    /\ feedback_out = None

\* detector._detect_grid_structure(gray)
DetectGridStructure ==
    /\ grid_found = None
    /\ grid_found' = Some(detect_grid_structure(hough_lines))
    /\ UNCHANGED hough_lines
    /\ UNCHANGED <<scoreVars, centerVars, splitVars, gradeVars>>
    /\ UNCHANGED <<lineVars, gridVars, detect_out, loadVars, feedback_out,
                   skeletonVars, watcherVars>>

NextHough == DetectGridStructure

SpecHough == InitHough /\ [][NextHough]_vars

GridSearched == grid_found # None
GridReported == grid_found[1].grid # None

StrictlyIncreasing(q) == \A i \in 1..(Len(q) - 1) : q[i] < q[i + 1]

\* C23: whenever _detect_grid_structure reports a grid, its vertical and its
\* horizontal coordinate lists each hold at least 2 entries and are strictly
\* increasing; with fewer than 2 clustered lines on either axis it reports no
\* grid.
C23_GridValid ==
    GridSearched =>
       /\ GridReported =>
             /\ Len(grid_found[1].grid[1].vertical_lines) >= 2
             /\ Len(grid_found[1].grid[1].horizontal_lines) >= 2
             /\ StrictlyIncreasing(grid_found[1].grid[1].vertical_lines)
             /\ StrictlyIncreasing(grid_found[1].grid[1].horizontal_lines)
       /\ (\/ Len(grid_found[1].vertical_lines) < 2
           \/ Len(grid_found[1].horizontal_lines) < 2) => ~GridReported

\* a grid reported from four segments, the leaning and the sloping one among
\* them
C23_Witness ==
    /\ GridSearched
    /\ GridReported
    /\ Len(hough_lines[1]) = 4
    /\ \E i \in 1..4 : hough_lines[1][i] = Segment(98, 0, 102, 200)
    /\ \E i \in 1..4 : hough_lines[1][i] = Segment(0, 118, 200, 122)
    /\ grid_found[1].grid[1] = [vertical_lines |-> <<0, 100>>,
                                horizontal_lines |-> <<20, 120>>]

\* segments found, two vertical lines after clustering but one horizontal: no
\* grid
C23_OneAxisShort ==
    /\ GridSearched
    /\ grid_found[1].lines_seen
    /\ Len(grid_found[1].vertical_lines) >= 2
    /\ Len(grid_found[1].horizontal_lines) = 1
    /\ ~GridReported


-----------------------------------------------------------------------------
(* the text of the entries detect_single_chars returns *)

\* C24 as claimed: every character entry produced by detect_single_chars carries
\* a text of length exactly 1, for every oracle result: single-character boxes,
\* multi-character boxes that are split, and boxes whose recognized text is
\* empty.
C24_EveryCharHasLengthOne ==
    CharsReturned =>
       \A k \in 1..Len(detect_out[1].val) : Len(detect_out[1].val[k].char) = 1

\* what the code gives: length 1 when predict answered, length at most 1 when
\* ocr did
C24_LengthOneFromPredict ==
    CharsReturned =>
       \A k \in 1..Len(detect_out[1].val) :
          /\ Len(detect_out[1].val[k].char) <= 1
          /\ image.oracle.predict = "ok" => Len(detect_out[1].val[k].char) = 1


-----------------------------------------------------------------------------
(* the grade label against the reported total_score *)

\* C25 as claimed: in every ScoreResult the grade label agrees with the reported
\* total_score, the value rounded to one decimal: the reported total_score is
\* >= the excellent threshold exactly when the grade is excellent, and likewise
\* for each lower band.
C25_GradeAgreesWithReportedTotal ==
    (Scored /\ ~IsRaise(score_result[1])) =>
       score_result[1].val.grade =
          grade_of(100 * score_result[1].val.total_score, thresholds)


-----------------------------------------------------------------------------
(* a feedback item for every dimension *)

\* C26 as claimed: for every ScoreResult, generate_feedback emits at least one
\* feedback item for each of the three dimensions (center, structure, stroke):
\* a dimension scoring below 85 always produces at least one diagnostic message.
C26_EveryDimensionHasAnItem ==
    FeedbackGiven =>
       \A dim \in FeedbackDimensions : Len(ItemsOf(dim)) >= 1

\* strokes as long as the template's but running across its direction: the
\* stroke score is 50 and the stroke dimension has no item
C26_SilentStrokeDimension ==
    /\ FeedbackGiven
    /\ student_features.stroke_features = template_features.stroke_features
    /\ student_features.stroke_features.total_length = 900
    /\ student_features.angles = <<0>>
    /\ template_features.angles = <<90>>
    /\ score_result[1].val.dimensions.stroke_accuracy = 500
    /\ \A k \in 1..Len(Feedback.feedback_items) :
          Feedback.feedback_items[k][1] \notin {"stroke_good", "stroke_short",
                                                "stroke_long"}


-----------------------------------------------------------------------------
(* the entries of a successful grade against the detected characters *)

\* C27 as claimed: a successful grade returns exactly one entry in chars per
\* character returned by detect_single_chars, in detection order, so char_count
\* equals the number of detected characters.
C27_OneEntryPerDetectedChar ==
    GradeOk =>
       /\ Len(grade_out[1].val.chars) = Len(Detected)
       /\ grade_out[1].val.char_count = Len(Detected)
       /\ \A k \in 1..Len(Detected) :
             /\ grade_out[1].val.chars[k].char = Detected[k].char
             /\ grade_out[1].val.chars[k].bbox = Detected[k].bbox


-----------------------------------------------------------------------------
(* load_template calls that resolve no template *)

\* some source of the folder can provide the character
Providable(source, char) ==
    \E origin \in {"prebaked", "rendered", "font"} : SourceHolds(source, char, origin)

\* C28: a load_template call that resolves no template leaves the template
\* cache unchanged, and a later call for the same character consults the
\* sources again and returns a template once a source can provide it.
C28_NotFoundNotStored ==
    [][(load_out' # load_out) =>
          /\ (load_out'[1].template = None) => (templates_cache' = templates_cache)
          /\ load_out'[1].retried =>
                /\ load_out'[1].consulted # <<>>
                /\ Providable(template_source, load_out'[1].char) =>
                      /\ load_out'[1].template # None
                      /\ SourceHolds(template_source, load_out'[1].char,
                                     load_out'[1].template[1].from)]_vars

\* a character that was not found is asked for again after the folder changed,
\* and the template is returned and cached
C28_Witness ==
    /\ Loaded
    /\ Load.retried
    /\ ~Load.hit
    /\ Load.consulted # <<>>
    /\ Load.template # None
    /\ <<Load.char, TargetSize>> \in DOMAIN templates_cache


-----------------------------------------------------------------------------
(* ScannerFolderHandler: on_created on the observer thread, _process_file on
   the timer threads *)

\* most on_created events dispatched
MaxEvents == 3

\* a path by its stem and its suffix
FilePath(stem, suffix) == [stem |-> stem, suffix |-> suffix]

\* self.image_extensions
image_extensions == {".jpg", ".jpeg", ".png", ".bmp", ".tiff", ".tif"}

\* str.lower() on the suffixes drawn
lower(suffix) ==
    CASE suffix = ".PNG" -> ".png"
      [] suffix = ".JPG" -> ".jpg"
      [] OTHER -> suffix

\* the events drawn: two image files, a text file and a new directory
EventSamples ==
    {[is_directory |-> FALSE, src_path |-> FilePath("scan1", ".PNG")],
     [is_directory |-> FALSE, src_path |-> FilePath("scan2", ".jpg")],
     [is_directory |-> FALSE, src_path |-> FilePath("notes", ".txt")],
     [is_directory |-> TRUE, src_path |-> FilePath("processed", "")]}

\* the image paths among them
ImagePaths ==
    {e.src_path : e \in {s \in EventSamples : lower(s.src_path.suffix) \in image_extensions}}

\* on_created goes on to self.processing.add whatever the set holds
passes_processing_test_always(file_path, in_processing) == TRUE

\* 'if file_path in self.processing: return' lets the event through
passes_processing_test(file_path, in_processing) == file_path \notin in_processing

\* the three early returns of on_created: what becomes of the event
on_created_outcome(event, in_processing) ==
    IF event.is_directory THEN "directory"
    ELSE IF lower(event.src_path.suffix) \notin image_extensions THEN "not_image"
    ELSE IF ~passes_processing_test(event.src_path, in_processing) THEN "ignored"
    ELSE "scheduled"

\* a timer thread: the path it was started with, where it is in _process_file
\* and how it left the try block
Timer(file_path) == [path |-> file_path, pc |-> "timer", ended |-> "running"]

InitWatcher ==
    /\ processing = {}
    /\ timers = <<>>
    /\ scanner_files = {}
    /\ scan_results = 0
    /\ observer = None
    /\ event_log = <<>>
    /\ ScoreIdle /\ CenterIdle /\ SplitIdle /\ GradeIdle
    /\ LineIdle /\ GridIdle /\ LoadIdle /\ SkeletonIdle /\ HoughIdle
    /\ detect_out = None
    /\ feedback_out = None

\* what no watcher step touches
outsideWatcher ==
    <<scoreVars, centerVars, splitVars, gradeVars, lineVars, gridVars, detect_out,
      loadVars, feedback_out, skeletonVars, houghVars>>

\* a file appears in the folder and the observer thread runs on_created up to
\* the test of the processing set
OnCreated ==
    \E event \in EventSamples :
       /\ observer = None
       /\ Len(event_log) < MaxEvents
       /\ scanner_files' = IF event.is_directory THEN scanner_files
                           ELSE scanner_files \cup {event.src_path}
       /\ event_log' = Append(event_log,
                              [path |-> event.src_path,
                               outcome |-> on_created_outcome(event, processing)])
       /\ observer' = IF on_created_outcome(event, processing) = "scheduled"
                      THEN Some([path |-> event.src_path, pc |-> "add"])
                      ELSE None
       /\ UNCHANGED <<processing, timers, scan_results>>
       /\ UNCHANGED outsideWatcher

\* self.processing.add(file_path)
ProcessingAdd ==
    /\ observer # None
    /\ observer[1].pc = "add"
    /\ processing' = processing \cup {observer[1].path}
    /\ observer' = Some([observer[1] EXCEPT !.pc = "start"])
    /\ UNCHANGED <<timers, scanner_files, scan_results, event_log>>
    /\ UNCHANGED outsideWatcher

\* threading.Timer(2.0, self._process_file, args=[file_path]).start()
TimerStart ==
    /\ observer # None
    /\ observer[1].pc = "start"
    /\ timers' = Append(timers, Timer(observer[1].path))
    /\ observer' = None
    /\ UNCHANGED <<processing, scanner_files, scan_results, event_log>>
    /\ UNCHANGED outsideWatcher

\* the timer fires: _process_file tests os.path.exists(file_path)
TestExists(t) ==
    /\ t \in 1..Len(timers)
    /\ timers[t].pc = "timer"
    /\ timers' = [timers EXCEPT ![t] =
                     IF timers[t].path \in scanner_files
                     THEN [timers[t] EXCEPT !.pc = "process"]
                     ELSE [timers[t] EXCEPT !.pc = "finally", !.ended = "gone"]]
    /\ UNCHANGED <<processing, scanner_files, scan_results, observer, event_log>>
    /\ UNCHANGED outsideWatcher

\* time.sleep(1) and process_scanned_image(...): it returns a result or raises
ProcessScannedImage(t) ==
    /\ t \in 1..Len(timers)
    /\ timers[t].pc = "process"
    /\ \E raised \in BOOLEAN :
          timers' = [timers EXCEPT ![t] =
                        IF raised
                        THEN [timers[t] EXCEPT !.pc = "finally", !.ended = "raised"]
                        ELSE [timers[t] EXCEPT !.pc = "callback"]]
    /\ UNCHANGED <<processing, scanner_files, scan_results, observer, event_log>>
    /\ UNCHANGED outsideWatcher

\* self.callback(result): ScannerWatcher._on_result appends the result
Callback(t) ==
    /\ t \in 1..Len(timers)
    /\ timers[t].pc = "callback"
    /\ scan_results' = scan_results + 1
    /\ timers' = [timers EXCEPT ![t] = [timers[t] EXCEPT !.pc = "move"]]
    /\ UNCHANGED <<processing, scanner_files, observer, event_log>>
    /\ UNCHANGED outsideWatcher

\* processed_dir.mkdir and shutil.move inside try / except: pass; the move can
\* fail and leave the file
MoveProcessed(t) ==
    /\ t \in 1..Len(timers)
    /\ timers[t].pc = "move"
    /\ \E moved \in BOOLEAN :
          scanner_files' = IF moved THEN scanner_files \ {timers[t].path}
                           ELSE scanner_files
    /\ timers' = [timers EXCEPT ![t] =
                     [timers[t] EXCEPT !.pc = "finally", !.ended = "processed"]]
    /\ UNCHANGED <<processing, scan_results, observer, event_log>>
    /\ UNCHANGED outsideWatcher

\* finally: self.processing.discard(file_path)
ProcessingDiscard(t) ==
    /\ t \in 1..Len(timers)
    /\ timers[t].pc = "finally"
    /\ processing' = processing \ {timers[t].path}
    /\ timers' = [timers EXCEPT ![t] = [timers[t] EXCEPT !.pc = "done"]]
    /\ UNCHANGED <<scanner_files, scan_results, observer, event_log>>
    /\ UNCHANGED outsideWatcher

\* a file is taken out of the folder by someone else
FileRemoved ==
    \E file_path \in scanner_files :
       /\ scanner_files' = scanner_files \ {file_path}
       /\ UNCHANGED <<processing, timers, scan_results, observer, event_log>>
       /\ UNCHANGED outsideWatcher

ObserverStep == ProcessingAdd \/ TimerStart

TimerStep(t) ==
    \/ TestExists(t)
    \/ ProcessScannedImage(t)
    \/ Callback(t)
    \/ MoveProcessed(t)
    \/ ProcessingDiscard(t)

NextWatcher ==
    \/ OnCreated
    \/ ProcessingAdd
    \/ TimerStart
    \/ \E t \in 1..MaxEvents : TestExists(t)
    \/ \E t \in 1..MaxEvents : ProcessScannedImage(t)
    \/ \E t \in 1..MaxEvents : Callback(t)
    \/ \E t \in 1..MaxEvents : MoveProcessed(t)
    \/ \E t \in 1..MaxEvents : ProcessingDiscard(t)
    \/ FileRemoved

SpecWatcher == InitWatcher /\ [][NextWatcher]_vars

\* the observer thread and every started timer thread keep running: a handler
\* that has begun goes on, a timer fires, and process_scanned_image comes back
SpecWatcherFair ==
    /\ SpecWatcher
    /\ WF_vars(ObserverStep)
    /\ \A t \in 1..MaxEvents : WF_vars(TimerStep(t))

\* the timer threads of a path that have not yet discarded it
ActiveTimers(file_path) ==
    {t \in 1..Len(timers) : timers[t].path = file_path /\ timers[t].pc # "done"}

\* the observer thread has added the path and not yet started its timer
BeingScheduled(file_path) ==
    observer # None /\ observer[1].path = file_path /\ observer[1].pc = "start"

\* a path has at most one scheduling under way, and it is in the processing set
\* exactly while it has one
OneSchedulingPerPath ==
    \A file_path \in ImagePaths :
       LET under_way == Cardinality(ActiveTimers(file_path))
                           + (IF BeingScheduled(file_path) THEN 1 ELSE 0)
       IN  /\ under_way <= 1
           /\ (file_path \in processing) <=> (under_way = 1)

\* C29: a file path that is pending or being processed is never scheduled for a
\* second processing (a further on_created event for it is ignored while it is
\* in the processing set), and every path added to the processing set is
\* eventually removed from it whether processing succeeds, raises, or finds the
\* file gone.
C29_NoSecondSchedulingAndRemoval ==
    /\ []OneSchedulingPerPath
    /\ [][\A file_path \in processing :
             (observer = None /\ observer' # None) => observer'[1].path # file_path]_vars
    /\ \A file_path \in ImagePaths :
          (file_path \in processing) ~> (file_path \notin processing)

\* an event for a path was ignored while its timer was pending, the three ways
\* out of _process_file were taken, and the processing set is empty again
C29_Witness ==
    /\ \E k \in 1..Len(event_log) : event_log[k].outcome = "ignored"
    /\ \E t \in 1..Len(timers) : timers[t].pc = "done" /\ timers[t].ended = "gone"
    /\ \E t \in 1..Len(timers) : timers[t].pc = "done" /\ timers[t].ended = "raised"
    /\ \A t \in 1..Len(timers) : timers[t].pc = "done"
    /\ processing = {}


-----------------------------------------------------------------------------
(* the two template caches of CalligraphyGrader under _get_template_features
   and _get_template_image calls *)

\* the three caches as one value
GraderCaches ==
    [templates_cache |-> templates_cache,
     template_image_cache |-> template_image_cache,
     template_features_cache |-> template_features_cache]

InitCaches ==
    /\ template_source \in LoaderSources
    /\ templates_cache = EmptyFn
    /\ template_image_cache = EmptyFn
    /\ template_features_cache = EmptyFn
    /\ grade_out = None
    /\ image = [decodable |-> FALSE]
    /\ ScoreIdle /\ CenterIdle /\ SplitIdle /\ ComponentIdle

\* grader._get_template_features(char); grade_out keeps the call and what it
\* returned
GetTemplateFeatures ==
    \E char \in LoaderChars :
       \E got \in {get_template_features(GraderCaches, template_source, char)} :
          /\ templates_cache' = got.caches.templates_cache
          /\ template_image_cache' = got.caches.template_image_cache
          /\ template_features_cache' = got.caches.template_features_cache
          /\ grade_out' = Some([call |-> "_get_template_features", char |-> char,
                                returned |-> got.features # None])
          /\ UNCHANGED <<image, template_source>>
          /\ UNCHANGED <<scoreVars, centerVars, splitVars>>
          /\ UNCHANGED componentVars

\* grader._get_template_image(char)
GetTemplateImage ==
    \E char \in LoaderChars :
       \E got \in {get_template_image(GraderCaches, template_source, char)} :
          /\ templates_cache' = got.caches.templates_cache
          /\ template_image_cache' = got.caches.template_image_cache
          /\ template_features_cache' = got.caches.template_features_cache
          /\ grade_out' = Some([call |-> "_get_template_image", char |-> char,
                                returned |-> got.image # None])
          /\ UNCHANGED <<image, template_source>>
          /\ UNCHANGED <<scoreVars, centerVars, splitVars>>
          /\ UNCHANGED componentVars

NextCaches ==
    \/ GetTemplateFeatures
    \/ GetTemplateImage
    \/ FolderChanges

SpecCaches == InitCaches /\ [][NextCaches]_vars

\* C30: after any sequence of _get_template_features and _get_template_image
\* calls, every character present in template_features_cache is also present in
\* template_image_cache, and a character whose template does not resolve (the
\* call for it returned None) is present in neither cache.
C30_FeaturesCachedWithImage ==
    /\ DOMAIN template_features_cache \subseteq DOMAIN template_image_cache
    /\ (grade_out # None /\ ~grade_out[1].returned) =>
          /\ grade_out[1].char \notin DOMAIN template_features_cache
          /\ grade_out[1].char \notin DOMAIN template_image_cache

\* one character sits in both caches and _get_template_image just returned None
\* for the other
C30_Witness ==
    /\ grade_out # None
    /\ grade_out[1].call = "_get_template_image"
    /\ ~grade_out[1].returned
    /\ \E char \in LoaderChars \ {grade_out[1].char} :
          /\ char \in DOMAIN template_features_cache
          /\ char \in DOMAIN template_image_cache


====
